---- MODULE Spec2Model ----
(***************************************************************************)
(* A model of the mwapi client (wiki-saikou-go): the request engine        *)
(* (Client.do / doOnce), the token cache with singleflight coalescing      *)
(* (GetToken), the token retry loop (PostWithToken) and the session        *)
(* manager (Login / Relogin / Logout).                                     *)
(*                                                                         *)
(* Every goroutine that uses the client is a process with a call stack of  *)
(* frames; a frame is one activation of a Go function and its pc names the *)
(* next statement that touches shared state or the network.  A critical    *)
(* section (c.mu.Lock ... c.mu.Unlock) is one atomic step.  The server is  *)
(* the environment: it answers every request with any response of          *)
(* Responses(np), or the transport fails.                                  *)
(***************************************************************************)
EXTENDS Integers, Sequences, FiniteSets, TLC

(* ------------------------------ bounds -------------------------------- *)

\* top-level API calls one goroutine makes in a behaviour
MaxCalls == 2
\* network requests one top-level call may send
MaxReq == 7
\* largest relogin budget a client is configured with (WithReloginRetry)
MaxReloginCfg == 2
\* largest per-call Retry option passed to PostWithToken
MaxRetryOpt == 2
MaxCallsConc == 1
MaxReqConc == 2
MaxReqPair == 5
MaxRetryPair == 2

\* the keys of a parameter map
MaxParamKeys == 2

(* ------------------------- program constants -------------------------- *)

DefaultReloginRetry == 3
DefaultTokenRetry == 3

TokenCSRF == "csrf"
TokenLogin == "login"
TokenTypes == {TokenCSRF, TokenLogin}

(* ------------------------------ strings ------------------------------- *)

\* strings.ToLower on the strings that reach a comparison in this model
ToLower(s) ==
    CASE s = "Success" -> "success"
      [] s = "NeedToken" -> "needtoken"
      [] s = "WrongToken" -> "wrongtoken"
      [] s = "Failed" -> "failed"
      [] s = "BadToken" -> "badtoken"
      [] s = "AssertUserFailed" -> "assertuserfailed"
      [] s = "Login" -> "login"
      [] OTHER -> s

\* strings.Contains(typ, "login") on the type lists used in this model
ContainsLogin(typ) == typ \in {"login", "csrf|login", "login|csrf"}

(* ------------------------ url.Values (one value per key) -------------- *)

Get(v, k) == IF k \in DOMAIN v THEN v[k] ELSE ""

Set(v, k, x) == [kk \in (DOMAIN v) \cup {k} |-> IF kk = k THEN x ELSE v[kk]]

setDefaultIfMissing(v, key, value) ==
    IF Get(v, key) = "" THEN Set(v, key, value) ELSE v

EmptyMap == [k \in {} |-> ""]

(* --------------------------- parameter values ------------------------- *)

\* A value of a map[string]any, by the case of addAny's type switch it takes.
\* A float64 is held in tenths; a reader's name is the name of the *os.File
\* behind it, "" for any other io.Reader.
Val(kind) == [kind |-> kind, s |-> "", n |-> 0, b |-> FALSE, xs |-> <<>>]

Nil == Val("nil")

Str(s) == [Val("string") EXCEPT !.s = s]

Bytes == Val("bytes")

FileVal(name) == [Val("File") EXCEPT !.s = name]

NilFilePtr == Val("nil*File")

Reader(name) == [Val("io.Reader") EXCEPT !.s = name]

Bool(b) == [Val("bool") EXCEPT !.b = b]

Strings(xs) == [Val("[]string") EXCEPT !.xs = xs]

Anys(xs) == [Val("[]any") EXCEPT !.xs = xs]

Stringer(s) == [Val("fmt.Stringer") EXCEPT !.s = s]

IntVal(n) == [Val("int") EXCEPT !.n = n]

Float(tenths) == [Val("float64") EXCEPT !.n = tenths]

RECURSIVE JoinComma(_)
JoinComma(xs) ==
    IF Len(xs) = 0 THEN ""
    ELSE IF Len(xs) = 1 THEN xs[1]
    ELSE xs[1] \o "," \o JoinComma(Tail(xs))

\* strings.Join(xs, "|")
RECURSIVE JoinPipe(_)
JoinPipe(xs) ==
    IF Len(xs) = 0 THEN ""
    ELSE IF Len(xs) = 1 THEN xs[1]
    ELSE xs[1] \o "|" \o JoinPipe(Tail(xs))

\* strconv.Itoa, strconv.FormatInt(x, 10)
Itoa(n) == IF n < 0 THEN "-" \o ToString(0 - n) ELSE ToString(n)

\* strconv.FormatFloat(x, 'f', -1, 64) of tenths/10: the shortest decimal
FormatFloat(tenths) ==
    LET a == IF tenths < 0 THEN 0 - tenths ELSE tenths
        whole == ToString(a \div 10)
        frac == IF a % 10 = 0 THEN "" ELSE "." \o ToString(a % 10)
    IN  (IF tenths < 0 THEN "-" ELSE "") \o whole \o frac

\* fmt.Sprint of an element of a []any
Sprint(v) ==
    CASE v.kind \in {"string", "fmt.Stringer"} -> v.s
      [] v.kind = "int" -> Itoa(v.n)
      [] v.kind = "float64" -> FormatFloat(v.n)
      [] v.kind = "bool" -> IF v.b THEN "true" ELSE "false"
      [] OTHER -> ""

\* lines 152-158: the parts of a []any, nil elements skipped
RECURSIVE Parts(_)
Parts(xs) ==
    IF xs = <<>> THEN <<>>
    ELSE (IF Head(xs).kind = "nil" THEN <<>> ELSE <<Sprint(Head(xs))>>) \o Parts(Tail(xs))

\* normalizedParams: Values holds one value per key, Files the attachments
NoParams == [Values |-> EmptyMap, Files |-> <<>>, err |-> ""]

fileField(field, filename) == [Field |-> field, Filename |-> filename]

SetValue(np, key, x) == [np EXCEPT !.Values = Set(np.Values, key, x)]

AddFile(np, key, filename) == [np EXCEPT !.Files = Append(np.Files, fileField(key, filename))]

\* addAny, lines 95-201
addAny(np, key, val) ==
    CASE val.kind \in {"nil", "nil*File"} -> np
      [] val.kind \in {"string", "fmt.Stringer"} -> SetValue(np, key, val.s)
      [] val.kind = "bytes" -> AddFile(np, key, key)
      [] val.kind = "File" -> AddFile(np, key, val.s)
      [] val.kind = "io.Reader" -> AddFile(np, key, IF val.s # "" THEN val.s ELSE key)
      [] val.kind = "bool" -> IF val.b THEN SetValue(np, key, "1") ELSE np
      [] val.kind = "[]string" ->
            IF Len(val.xs) = 0 THEN np ELSE SetValue(np, key, JoinPipe(val.xs))
      [] val.kind = "[]any" ->
            IF Len(Parts(val.xs)) = 0 THEN np ELSE SetValue(np, key, JoinPipe(Parts(val.xs)))
      [] val.kind = "int" -> SetValue(np, key, Itoa(val.n))
      [] val.kind = "float64" -> SetValue(np, key, FormatFloat(val.n))

\* the parameter sets a caller may pass, by the case of normalizeParams'
\* type switch: nil, url.Values (m: key -> values), map[string]string,
\* map[string]any, a struct or pointer to one (m: what query.Values makes
\* of it), a nil pointer, and anything else
ParamSet(shape, m) == [shape |-> shape, m |-> m]

AnyMapOfStrings(r) == ParamSet("map[string]any", [k \in DOMAIN r |-> Str(r[k])])

\* the orders in which a range over a map with the keys S may visit them
RECURSIVE KeyOrders(_)
KeyOrders(S) ==
    IF S = {} THEN {<<>>}
    ELSE UNION {{<<k>> \o o : o \in KeyOrders(S \ {k})} : k \in S}

RECURSIVE SomeOrder(_)
SomeOrder(S) ==
    IF S = {} THEN <<>>
    ELSE LET k == CHOOSE x \in S: TRUE IN <<k>> \o SomeOrder(S \ {k})

\* lines 52-56: addAny for every key, in the order the range visits them
RECURSIVE addAll(_, _, _)
addAll(np, m, order) ==
    IF order = <<>> THEN np
    ELSE addAll(addAny(np, Head(order), m[Head(order)]), m, Tail(order))

\* lines 36-79 of normalizeParams: the fields and attachments before the
\* defaults
encodeParams(p, order) ==
    CASE p.shape \in {"nil", "nil pointer"} -> NoParams
      [] p.shape \in {"url.Values", "struct"} ->
            [NoParams EXCEPT !.Values =
                [k \in {x \in DOMAIN p.m: Len(p.m[x]) > 0} |-> JoinPipe(p.m[k])]]
      [] p.shape = "map[string]string" -> [NoParams EXCEPT !.Values = p.m]
      [] p.shape = "map[string]any" -> addAll(NoParams, p.m, order)
      [] OTHER -> [NoParams EXCEPT !.err = "unsupported params type"]

\* lines 81-84
applyDefaults(v) ==
    setDefaultIfMissing(
        setDefaultIfMissing(
            setDefaultIfMissing(
                setDefaultIfMissing(v, "action", "query"),
                "format", "json"),
            "formatversion", "2"),
        "errorformat", "plaintext")

\* normalizeParams of p, when the range over a map visits the keys in order
normalizeParams(p, order) ==
    LET np == encodeParams(p, order)
    IN  IF np.err # "" THEN np
        ELSE [np EXCEPT !.Values = applyDefaults(np.Values)]

(* --------------------------- Request Transport ------------------------ *)

\* The query of the endpoint URL, url.Values: key -> the values of the key.
\* mergeQuery, lines 612-636; overlay holds one value per key, omitKeys is
\* a set of keys ({} for nil).
mergeQueryAdding(base, overlay, omitKeys) ==
    [k \in ((DOMAIN base) \cup (DOMAIN overlay)) \ omitKeys |->
        (IF k \in DOMAIN base THEN base[k] ELSE <<>>)
        \o (IF k \in DOMAIN overlay THEN <<overlay[k]>> ELSE <<>>)]

mergeQuery(base, overlay, omitKeys) ==
    [k \in ({x \in DOMAIN base: Len(base[x]) > 0} \cup (DOMAIN overlay)) \ omitKeys |->
        IF k \in DOMAIN overlay THEN <<overlay[k]>> ELSE base[k]]

\* lines 583-597: the file parts of a multipart body
fileParts(files) ==
    [i \in 1 .. Len(files) |->
        fileField(files[i].Field,
                  IF files[i].Filename = "" THEN files[i].Field ELSE files[i].Filename)]

\* Client.buildRequest, lines 546-610.  The request is held as its method,
\* the query of its URL, the form fields and the file parts of its body and
\* its content type; percent-encoding and the multipart boundary are not
\* modelled.
buildRequest(baseQuery, method, np) ==
    IF method = "GET"
    THEN [method |-> "GET", query |-> mergeQuery(baseQuery, np.Values, {}),
          fields |-> EmptyMap, parts |-> <<>>, contentType |-> ""]
    ELSE [method |-> "POST",
          query |-> [k \in (DOMAIN baseQuery) \ (DOMAIN np.Values) |-> baseQuery[k]],
          fields |-> np.Values,
          parts |-> fileParts(np.Files),
          contentType |-> IF Len(np.Files) = 0
                          THEN "application/x-www-form-urlencoded"
                          ELSE "multipart/form-data"]

(* ------------------------------ errors -------------------------------- *)

NoErr == [k |-> "nil"]
\* a *MediaWikiApiError with its Code
ApiError(code, msg) == [k |-> "api", code |-> code, msg |-> msg]
\* an error of the HTTP transport (hc.Do, reading the body)
TransportErr == [k |-> "transport"]
\* the error hc.Do returns when the ctx of the request is done
\* (context.Canceled or context.DeadlineExceeded inside a *url.Error)
Canceled == [k |-> "canceled"]
\* fmt.Errorf(msg) without a wrapped error
Plain(msg) == [k |-> "plain", msg |-> msg]
\* fmt.Errorf(msg + ": %w", inner)
Wrap(msg, inner) == [k |-> "wrap", msg |-> msg, inner |-> inner]
\* errors.Join(a, b)
Join(a, b) == [k |-> "join", a |-> a, b |-> b]

\* errors.As(err, &*MediaWikiApiError): the first MediaWikiApiError in the
\* error's tree, depth first, or NoErr
RECURSIVE AsApi(_)
AsApi(err) ==
    CASE err.k = "api" -> err
      [] err.k = "wrap" -> AsApi(err.inner)
      [] err.k = "join" -> IF AsApi(err.a) # NoErr THEN AsApi(err.a) ELSE AsApi(err.b)
      [] OTHER -> NoErr

IsMediaWikiApiError(err) == AsApi(err) # NoErr

isAnyErrorCode(code) == code # ""

isTokenErrorCode(code) ==
    ToLower(code) \in {"badtoken", "notoken", "needtoken", "wrongtoken"}

isAssertUserFailedCode(code) ==
    ToLower(code) \in {"assertuserfailed", "assertnameduserfailed"}

(* ----------------------------- responses ------------------------------ *)

\* A *Response: status 0 stands for the nil pointer.  error is Error.Code
\* ("" when Error is nil), errors the codes of Errors; tokens, result and
\* lgname are what Raw holds at query.tokens, login.result, login.lgusername;
\* setCookie is the cookie of the Set-Cookie header, "" without one.
NilResp == [status |-> 0, error |-> "", errors |-> <<>>, tokens |-> EmptyMap,
            result |-> "", lgname |-> "", setCookie |-> ""]

OkResp == [NilResp EXCEPT !.status = 200]

responseErrorCode(resp) ==
    IF resp.status = 0 THEN ""
    ELSE IF resp.error # "" THEN resp.error
    ELSE IF Len(resp.errors) > 0 THEN resp.errors[1]
    ELSE ""

responseApiErrorObjectOnly(r) ==
    IF r.error = "" THEN NoErr ELSE ApiError(r.error, "MediaWiki API error")

responseApiError(r) ==
    IF r.error = "" /\ Len(r.errors) = 0 THEN NoErr
    ELSE ApiError(IF r.error # "" THEN r.error ELSE r.errors[1], "MediaWiki API error")

extractTokenLenient(resp, tokenType) ==
    IF tokenType \in DOMAIN resp.tokens /\ resp.tokens[tokenType] # ""
    THEN resp.tokens[tokenType] ELSE "-"

\* extractToken: the value at query.tokens.<kind>token, "" when absent
extractToken(resp, tokenType) ==
    IF tokenType \in DOMAIN resp.tokens THEN resp.tokens[tokenType] ELSE ""

(* ------------------------------ the server ---------------------------- *)

\* envelope error codes the server answers with
ErrCodes == {"badtoken", "AssertUserFailed", "ratelimited"}

\* the error lists the server answers with (errorformat other than bc)
ErrLists == {<<"ratelimited", "badtoken">>}

Users == {"alice", "bob"}
Passwords == {"pw"}

\* the canonical user name the wiki reports for a login name
Canon(u) == CASE u = "alice" -> "Alice" [] u = "bob" -> "Bob" [] OTHER -> u

\* the cookie the wiki sets with a successful login
SessionCookie == "session=1"

\* the n-th token value the server hands out
TokenValue(n) == "T" \o ToString(n)

\* the token kinds a type list names
KindsOf(typ) ==
    CASE typ = "csrf" -> {"csrf"}
      [] typ = "login" -> {"login"}
      [] typ \in {"csrf|login", "login|csrf"} -> {"csrf", "login"}
      [] OTHER -> {}

\* what the server may answer to the request np, given the next unused
\* token number n: an error envelope, or a payload fitting the request
\* (also an empty one).
Responses(np, n) ==
    {[OkResp EXCEPT !.error = c] : c \in ErrCodes}
    \cup {[OkResp EXCEPT !.errors = l] : l \in ErrLists}
    \cup {OkResp}
    \cup (IF ToLower(Get(np, "action")) = "query" /\ Get(np, "meta") = "tokens"
          THEN {[OkResp EXCEPT !.tokens = [k \in KindsOf(Get(np, "type")) |-> TokenValue(n)]]}
          ELSE {})
    \cup (IF ToLower(Get(np, "action")) = "login"
          THEN {[OkResp EXCEPT !.result = r,
                               !.lgname = IF r = "Success" THEN Canon(Get(np, "lgname")) ELSE "",
                               !.setCookie = IF r = "Success" THEN SessionCookie ELSE ""]
                : r \in {"Success", "NeedToken", "Failed"}}
          ELSE {})

(* ------------------------------- state -------------------------------- *)

Procs == {1, 2}

VARIABLES
    cfg,           \* throwOnApiError, keepLogin, reloginRetry, tokenRetry
    tokens,        \* c.tokens: token type -> value (a map: absent keys are absent)
    loggedInUser,  \* c.loggedInUser
    loginUser,     \* c.loginUser
    loginPass,     \* c.loginPass
    sf,            \* c._sf: singleflight key -> the process running the call, 0 if none
    stack,         \* per goroutine: its call stack, innermost frame last
    result,        \* per goroutine: what its last top-level call returned
    op,            \* per goroutine: its current (or last) top-level call
    pre,           \* per goroutine: the session state when that call began
    log,           \* per goroutine: the network events of that call
    calls,         \* per goroutine: top-level calls made
    reqLeft,       \* per goroutine: requests the current call may still send
    nextTok,       \* the next unused token number of the server
    env,           \* the application: its goroutines, the calls they make, their limits
    jar,           \* c.hc.Jar: the session cookie held, "" if none
    mu,            \* c.mu: the goroutine holding the mutex, 0 if none
    ctxDone,       \* per goroutine: whether the ctx of its top-level call is done
    pf             \* a parameter set being normalized and built into a request

vars == <<cfg, tokens, loggedInUser, loginUser, loginPass, sf, stack, result,
          op, pre, log, calls, reqLeft, nextTok, env, jar, mu, ctxDone, pf>>

client == <<tokens, loggedInUser, loginUser, loginPass>>
book == <<op, pre, calls, env, cfg, jar, ctxDone, pf>>

(* ---------------------------- construction ---------------------------- *)

\* NewClient with WithThrowOnApiError(t), WithKeepLogin(k), WithReloginRetry(r)
\* and WithTokenRetry(n); r < 0 and n <= 0 leave the defaults.
NewClient(t, k, r, n) ==
    [throwOnApiError |-> t,
     keepLogin |-> k,
     reloginRetry |-> IF r >= 0 THEN r ELSE DefaultReloginRetry,
     tokenRetry |-> IF n > 0 THEN n ELSE DefaultTokenRetry]

NoResult == [resp |-> NilResp, err |-> NoErr, val |-> "", none |-> TRUE]
Ret(resp, err, val) == [resp |-> resp, err |-> err, val |-> val, none |-> FALSE]

NoCall == [name |-> "none"]

\* no call has been made a second time
NoRun == [ran |-> FALSE, log |-> <<>>, result |-> NoResult]

\* no parameter set is being normalized
NoNormalization == [step |-> "none"]

\* the client's state, the goroutines that are inside a call, and for each
\* goroutine the number of its call and of the requests that call has sent
Snapshot == [tokens |-> tokens, loggedInUser |-> loggedInUser,
             loginUser |-> loginUser, loginPass |-> loginPass, jar |-> jar,
             running |-> {q \in Procs: stack[q] # <<>>},
             call |-> calls,
             sent |-> [q \in Procs |-> Len(SelectSeq(log[q], LAMBDA ev: ev.e = "send"))]]

InitClient ==
    /\ tokens = EmptyMap
    /\ jar = ""
    /\ mu = 0
    /\ ctxDone = [p \in Procs |-> FALSE]
    /\ loggedInUser = ""
    /\ loginUser = ""
    /\ loginPass = ""
    /\ sf = [k \in TokenTypes |-> 0]
    /\ stack = [p \in Procs |-> <<>>]
    /\ result = [p \in Procs |-> NoResult]
    /\ op = [p \in Procs |-> NoCall]
    /\ log = [p \in Procs |-> <<>>]
    /\ calls = [p \in Procs |-> 0]
    /\ pre = [p \in Procs |-> Snapshot]
    /\ reqLeft = [p \in Procs |-> 0]
    /\ nextTok = 1

\* The configurations explored.  With keep-login on: both error modes and
\* every relogin budget up to MaxReloginCfg with a token budget of 1, and
\* both error modes with the default token budget and relogin disabled.
\* With keep-login off: the default relogin budget.
Configs ==
    {NewClient(t, TRUE, r, 1) : t \in BOOLEAN, r \in 0 .. MaxReloginCfg}
    \cup {NewClient(t, TRUE, 0, 0) : t \in BOOLEAN}
    \cup {NewClient(FALSE, FALSE, -1, 1)}

(* ------------------------------- frames ------------------------------- *)

doOptions == [skipAssert |-> FALSE, skipRelogin |-> FALSE]

DoFrame(method, p, opt) ==
    [fn |-> "do", pc |-> "assert", method |-> method,
     np |-> normalizeParams(AnyMapOfStrings(p), SomeOrder(DOMAIN p)).Values,
     opt |-> opt, attempt |-> 0, lastErr |-> NoErr, resp |-> NilResp, ret |-> NoResult]

GetTokenFrame(tokenType) ==
    [fn |-> "GetToken", pc |-> "check1", tokenType |-> tokenType, v |-> "",
     err |-> NoErr, ret |-> NoResult]

\* PostWithToken, lines 74-82: the retry budget of a call
RetryBudgetIgnoringOpt(opt, tokenRetry) == tokenRetry

RetryBudget(opt, tokenRetry) == IF opt.Retry > 0 THEN opt.Retry ELSE tokenRetry

\* opt.Retry = 0, opt.NoCache = FALSE, opt.TokenName = "" stand for a nil opt
PostWithTokenFrame(tokenType, p, opt, tokenRetry) ==
    [fn |-> "PostWithToken", pc |-> "loop", tokenType |-> tokenType, p2 |-> p,
     tokenName |-> IF opt.TokenName # "" THEN opt.TokenName ELSE "token",
     retry |-> RetryBudget(opt, tokenRetry),
     noCache |-> opt.NoCache,
     attempt |-> 0, lastErr |-> NoErr, ret |-> NoResult]

nilOpt == [TokenName |-> "", Retry |-> 0, NoCache |-> FALSE]

LoginFrame(user, pass, tokenRetry) ==
    [fn |-> "Login", pc |-> "loop", user |-> user, pass |-> pass,
     retry |-> tokenRetry, attempt |-> 0, lastErr |-> NoErr,
     lgname |-> "", ret |-> NoResult]

ReloginFrame == [fn |-> "Relogin", pc |-> "read", ret |-> NoResult]

LogoutFrame == [fn |-> "Logout", pc |-> "start", ret |-> NoResult]

InvalidateFrame(name, tokenType) ==
    [fn |-> name, pc |-> "lock", tokenType |-> tokenType, ret |-> NoResult]

(* --------------------------- stack plumbing --------------------------- *)

Running(p) == stack[p] # <<>>
Top(p) == stack[p][Len(stack[p])]
At(p, fn, pc) == Running(p) /\ Top(p).fn = fn /\ Top(p).pc = pc

SetTop(s, f) == [s EXCEPT ![Len(s)] = f]

\* the innermost frame becomes f
Goto(p, f) ==
    /\ stack' = [stack EXCEPT ![p] = SetTop(@, f)]
    /\ UNCHANGED result

\* the innermost frame becomes f and calls callee
Call(p, f, callee) ==
    /\ stack' = [stack EXCEPT ![p] = Append(SetTop(@, f), callee)]
    /\ UNCHANGED result

\* the stack s after its innermost frame returned ret to its caller
Popped(s, ret) ==
    IF Len(s) = 1 THEN <<>>
    ELSE SetTop(SubSeq(s, 1, Len(s) - 1), [s[Len(s) - 1] EXCEPT !.ret = ret])

\* the innermost frame returns ret, to its caller or as the call's result
Return(p, ret) ==
    /\ stack' = [stack EXCEPT ![p] = Popped(@, ret)]
    /\ result' = [result EXCEPT ![p] = IF Len(stack[p]) = 1 THEN ret ELSE @]

Logged(p, ev) == log' = [log EXCEPT ![p] = Append(@, ev)]

(* ------------------------------- c.mu --------------------------------- *)

\* The next step of p starts with c.mu.Lock(): the sections of
\* InvalidateToken and InvalidateAllTokens, of do (lines 452-455), Relogin
\* (79-82), Login (23, 52-56, 59), GetToken (31-36, 40-45, 61-63), tokenSF
\* (166-167), PostWithToken (95-96) and Logout (99-103, 104).
NeedsLock(p) ==
    /\ stack[p] # <<>>
    /\ LET f == stack[p][Len(stack[p])] IN
       CASE f.fn \in {"InvalidateToken", "InvalidateAllTokens"} -> TRUE
         [] f.fn = "do" ->
               /\ f.pc = "assert"
               /\ cfg.keepLogin
               /\ ~(\/ f.opt.skipAssert
                    \/ ToLower(Get(f.np, "action")) = "login"
                    \/ /\ ToLower(Get(f.np, "action")) = "query"
                       /\ ToLower(Get(f.np, "meta")) = "tokens"
                       /\ ContainsLogin(ToLower(Get(f.np, "type"))))
         [] f.fn = "Relogin" -> f.pc = "read"
         [] f.fn = "Login" ->
               \/ f.pc = "loop" /\ f.attempt < f.retry
               \/ f.pc = "post_ret" /\ f.ret.err = NoErr
                                    /\ ToLower(f.ret.resp.result) = "success"
               \/ f.pc = "invalAll"
         [] f.fn = "GetToken" ->
               \/ f.pc \in {"check1", "sfDo", "check2"}
               \/ f.pc = "post_ret" /\ f.ret.err = NoErr
                                    /\ f.tokenType \in DOMAIN f.ret.resp.tokens
                                    /\ f.ret.resp.tokens[f.tokenType] # ""
         [] f.fn = "PostWithToken" ->
               f.pc = "loop" /\ f.attempt < f.retry /\ (f.attempt > 0 \/ f.noCache)
         [] f.fn = "Logout" ->
               \/ f.pc = "pwt_ret" /\ f.ret.err = NoErr
               \/ f.pc = "invalAll"
         [] OTHER -> FALSE

\* c.mu.Unlock() by its holder p
UnlockForgotten(p) == p

Unlock(p) == 0

\* c.mu.Lock(): p blocks until the mutex is free
Lock(p) ==
    /\ NeedsLock(p)
    /\ mu = 0
    /\ mu' = p
    /\ UNCHANGED <<cfg, tokens, loggedInUser, loginUser, loginPass, sf, stack, result,
                   op, pre, log, calls, reqLeft, nextTok, env, jar, ctxDone, pf>>

\* a step of p: a section of it that runs under c.mu is entered holding
\* c.mu and ends with Unlock
Mutex(p) ==
    /\ NeedsLock(p) => mu = p
    /\ mu' = IF mu = p THEN Unlock(p) ELSE mu

(* --------------------------- the token cache -------------------------- *)

\* delete(c.tokens, tokenType) under c.mu
InvalidateToken(tokenType) ==
    tokens' = [k \in (DOMAIN tokens) \ {tokenType} |-> tokens[k]]

\* c.tokens = map[TokenType]string{} under c.mu
InvalidateAllTokensButCSRF ==
    tokens' = [k \in (DOMAIN tokens) \cap {TokenCSRF} |-> tokens[k]]

InvalidateAllTokens == tokens' = EmptyMap

(* ------------------------- top-level API calls ------------------------ *)

\* parameter maps callers pass to Get and to Post
GetParams ==
    {[titles |-> "Main Page"],
     [action |-> "query", assertuser |-> "Carol"]}

PostParams ==
    {[titles |-> "Main Page"],
     [action |-> "Login", lgname |-> "alice"],
     [action |-> "query", meta |-> "tokens", type |-> "csrf|login"]}

\* options callers pass to PostWithToken (nilOpt: a nil pointer)
UserOpts ==
    {nilOpt}
    \cup {[nilOpt EXCEPT !.Retry = r] : r \in 1 .. MaxRetryOpt}
    \cup {[nilOpt EXCEPT !.NoCache = TRUE]}

Calls ==
    {[name |-> "Get", p |-> q] : q \in GetParams}
    \cup {[name |-> "Post", p |-> q] : q \in PostParams}
    \cup {[name |-> "GetToken", tokenType |-> t] : t \in TokenTypes}
    \cup {[name |-> "PostWithToken", tokenType |-> TokenCSRF,
           p |-> [action |-> "edit"], opt |-> o] : o \in UserOpts}
    \cup {[name |-> "Login", user |-> u, pass |-> w] : u \in Users, w \in Passwords}
    \cup {[name |-> "Relogin"], [name |-> "Logout"], [name |-> "InvalidateAllTokens"]}
    \cup {[name |-> "InvalidateToken", tokenType |-> t] : t \in TokenTypes}

\* the first frame of a top-level call
EntryFrame(c) ==
    CASE c.name = "Get" -> DoFrame("GET", c.p, doOptions)
      [] c.name = "Post" -> DoFrame("POST", c.p, doOptions)
      [] c.name = "GetToken" -> GetTokenFrame(c.tokenType)
      [] c.name = "PostWithToken" ->
            PostWithTokenFrame(c.tokenType, c.p, c.opt, cfg.tokenRetry)
      [] c.name = "Login" -> LoginFrame(c.user, c.pass, cfg.tokenRetry)
      [] c.name = "Relogin" -> ReloginFrame
      [] c.name = "Logout" -> LogoutFrame
      [] c.name = "InvalidateToken" -> InvalidateFrame("InvalidateToken", c.tokenType)
      [] c.name = "InvalidateAllTokens" -> InvalidateFrame("InvalidateAllTokens", "")

\* a goroutine that is not inside a call makes its next call
StartCall(p) ==
    /\ Mutex(p)
    /\ p \in env.active
    /\ ~Running(p)
    /\ calls[p] < env.maxCalls[p]
    /\ \E c \in env.menu[p]:
          /\ stack' = [stack EXCEPT ![p] = <<EntryFrame(c)>>]
          /\ op' = [op EXCEPT ![p] = c]
    /\ calls' = [calls EXCEPT ![p] = @ + 1]
    /\ result' = [result EXCEPT ![p] = NoResult]
    /\ pre' = [pre EXCEPT ![p] = Snapshot]
    /\ log' = [log EXCEPT ![p] = <<>>]
    /\ reqLeft' = [reqLeft EXCEPT ![p] = env.maxReq]
    /\ ctxDone' = [ctxDone EXCEPT ![p] = FALSE]
    /\ UNCHANGED <<client, sf, nextTok, env, cfg, jar, pf>>

\* InvalidateToken and InvalidateAllTokens called by the application
InvalidateStep(p) ==
    /\ Mutex(p)
    /\ Running(p)
    /\ Top(p).fn \in {"InvalidateToken", "InvalidateAllTokens"}
    /\ IF Top(p).fn = "InvalidateToken"
       THEN InvalidateToken(Top(p).tokenType)
       ELSE InvalidateAllTokens
    /\ Return(p, Ret(NilResp, NoErr, ""))
    /\ UNCHANGED <<loggedInUser, loginUser, loginPass, sf, log, reqLeft, nextTok, book>>

(* ------------------------------ Client.do ----------------------------- *)

\* do, lines 440-459: the identity assertion is injected once, before the loop
shouldSkipAssert(np, opt) ==
    \/ opt.skipAssert
    \/ ToLower(Get(np, "action")) = "login"
    \/ /\ ToLower(Get(np, "action")) = "query"
       /\ ToLower(Get(np, "meta")) = "tokens"
       /\ ContainsLogin(ToLower(Get(np, "type")))

InjectAssertOverwriting(np, opt, keepLogin, user) ==
    IF keepLogin /\ ~shouldSkipAssert(np, opt) /\ user # ""
    THEN Set(np, "assertuser", user)
    ELSE np

InjectAssert(np, opt, keepLogin, user) ==
    IF keepLogin /\ ~shouldSkipAssert(np, opt) /\ user # "" /\ Get(np, "assertuser") = ""
    THEN Set(np, "assertuser", user)
    ELSE np

maxRelogin(opt, reloginRetry) == IF ~opt.skipRelogin THEN reloginRetry ELSE 0

DoAssert(p) ==
    /\ Mutex(p)
    /\ At(p, "do", "assert")
    /\ LET f == Top(p) IN
          Goto(p, [f EXCEPT !.pc = "send",
                            !.np = InjectAssert(f.np, f.opt, cfg.keepLogin, loggedInUser)])
    /\ UNCHANGED <<client, sf, log, reqLeft, nextTok, book>>

\* hc.Do with c.hc.Jar: the cookie the request carries, and the jar after
\* the response r
CookieNotSent(j) == ""

CookieSent(j) == j

SetCookies(j, r) == IF r.setCookie # "" THEN r.setCookie ELSE j

\* doOnce up to hc.Do: the request goes on the wire; hc.Do with a ctx that
\* is done sends nothing and returns the error of the ctx
DoSend(p) ==
    /\ Mutex(p)
    /\ At(p, "do", "send")
    /\ reqLeft[p] > 0
    /\ LET f == Top(p) IN
          IF ctxDone[p]
          THEN /\ Return(p, Ret(NilResp, Canceled, ""))
               /\ UNCHANGED <<log, reqLeft>>
          ELSE /\ Goto(p, [f EXCEPT !.pc = "wait"])
               /\ Logged(p, [e |-> "send", np |-> f.np, method |-> f.method,
                             cur |-> loggedInUser, cookie |-> CookieSent(jar),
                             depth |-> Len(stack[p])])
               /\ reqLeft' = [reqLeft EXCEPT ![p] = @ - 1]
    /\ UNCHANGED <<client, sf, nextTok, book>>

\* doOnce after hc.Do: what it returns for the response r, or for a
\* transport failure (r = NilResp)
doOnceMisclassifying(r, throwOnApiError) ==
    IF r.status = 0
    THEN [resp |-> NilResp, err |-> ApiError("AssertUserFailed", "transport")]
    ELSE [resp |-> r, err |-> NoErr]

doOnce(r, throwOnApiError) ==
    IF r.status = 0 THEN [resp |-> NilResp, err |-> TransportErr]
    ELSE IF throwOnApiError /\ responseApiError(r) # NoErr
         THEN [resp |-> r, err |-> responseApiError(r)]
         ELSE [resp |-> r, err |-> NoErr]

\* lines 482-489: the assertion failure that outlived the relogin budget
AssertExhaustedSwallowed(resp, code) == Ret(resp, NoErr, "")

AssertExhausted(resp, code) == Ret(resp, ApiError(code, "assertuser failed"), "")

\* do, lines 468-503: what the loop does with doOnce's result at the given
\* attempt: "return" (with ret) or "relogin" (with lastErr)
Classify(resp, err, attempt, maxRl) ==
    LET code == responseErrorCode(resp)
        asserr == ApiError(code, "assertuser failed")
        e == AsApi(err)
    IN  IF err = NoErr
        THEN IF isAssertUserFailedCode(code) /\ attempt < maxRl
             THEN [act |-> "relogin", lastErr |-> asserr]
             ELSE IF isAssertUserFailedCode(code) /\ attempt = maxRl
             THEN [act |-> "return", ret |-> AssertExhausted(resp, code)]
             ELSE [act |-> "return", ret |-> Ret(resp, NoErr, "")]
        ELSE IF e = NoErr \/ e.code = "" \/ ~isAssertUserFailedCode(e.code)
             THEN [act |-> "return", ret |-> Ret(resp, err, "")]
             ELSE IF attempt = maxRl
             THEN [act |-> "return", ret |-> Ret(resp, err, "")]
             ELSE [act |-> "relogin", lastErr |-> err]

\* what the server may do with the request np of p: answer it, or fail in
\* transport; when the call is made a second time against the same server
\* script, the k-th request gets what the k-th request of the first run got
Answers(p, np) ==
    LET got == SelectSeq(env.first.log, LAMBDA ev: ev.e = "recv")
        k == Len(SelectSeq(log[p], LAMBDA ev: ev.e = "recv")) + 1
    IN  IF env.first.ran /\ k <= Len(got)
        THEN {got[k].resp}
        ELSE Responses(np, nextTok) \cup {NilResp}

\* the response (or the transport failure) arrives and the loop acts on it;
\* when the ctx is done hc.Do gives up the request and returns its error
DoRecv(p) ==
    /\ Mutex(p)
    /\ At(p, "do", "wait")
    /\ LET f == Top(p) IN
       \E r \in IF ctxDone[p] THEN {NilResp} ELSE Answers(p, f.np):
          LET o == IF ctxDone[p] THEN [resp |-> NilResp, err |-> Canceled]
                   ELSE doOnce(r, cfg.throwOnApiError)
              c == Classify(o.resp, o.err, f.attempt,
                            maxRelogin(f.opt, cfg.reloginRetry))
          IN  /\ nextTok' = IF r.tokens # EmptyMap THEN nextTok + 1 ELSE nextTok
              /\ jar' = SetCookies(jar, r)
              /\ Logged(p, [e |-> "recv", np |-> f.np, resp |-> o.resp, err |-> o.err,
                            depth |-> Len(stack[p])])
              /\ IF c.act = "return"
                 THEN Return(p, c.ret)
                 ELSE Call(p, [f EXCEPT !.pc = "relogin_ret", !.resp = o.resp,
                                        !.lastErr = c.lastErr],
                           ReloginFrame)
    /\ UNCHANGED <<client, sf, reqLeft, op, pre, calls, env, cfg, ctxDone, pf>>

\* lines 478 and 502: the failure returned when Relogin fails
ReloginFailureOnly(lastErr, err2) == err2

ReloginFailure(lastErr, err2) == Join(lastErr, err2)

\* line 467: the loop's post statement
NextAttemptStuck(attempt) == attempt

NextAttempt(attempt) == attempt + 1

\* Relogin returned err2: join the errors, or replay the request
DoReloginRet(p) ==
    /\ Mutex(p)
    /\ At(p, "do", "relogin_ret")
    /\ LET f == Top(p)
           err2 == f.ret.err
       IN  IF err2 # NoErr
           THEN Return(p, Ret(f.resp, ReloginFailure(f.lastErr, err2), ""))
           ELSE Goto(p, [f EXCEPT !.pc = "send", !.attempt = NextAttempt(f.attempt)])
    /\ UNCHANGED <<client, sf, log, reqLeft, nextTok, book>>

(* ------------------------------- Relogin ------------------------------ *)

NoStoredCredentials == Plain("relogin requested but no stored credentials")

\* line 84: nothing to log in with
NoCredentialsNever(user, pass) == FALSE

NoCredentials(user, pass) == user = "" \/ pass = ""

ReloginRead(p) ==
    /\ Mutex(p)
    /\ At(p, "Relogin", "read")
    /\ LET f == Top(p) IN
          IF NoCredentials(loginUser, loginPass)
          THEN /\ Return(p, Ret(NilResp, NoStoredCredentials, ""))
               /\ log' = [log EXCEPT ![p] = @ \o
                            <<[e |-> "relogin", depth |-> Len(stack[p])],
                              [e |-> "relogin_ret", err |-> NoStoredCredentials,
                               depth |-> Len(stack[p])]>>]
          ELSE /\ Call(p, [f EXCEPT !.pc = "login_ret"],
                       LoginFrame(loginUser, loginPass, cfg.tokenRetry))
               /\ Logged(p, [e |-> "relogin", depth |-> Len(stack[p])])
    /\ UNCHANGED <<client, sf, reqLeft, nextTok, book>>

ReloginRet(p) ==
    /\ Mutex(p)
    /\ At(p, "Relogin", "login_ret")
    /\ Return(p, Ret(NilResp, Top(p).ret.err, ""))
    /\ Logged(p, [e |-> "relogin_ret", err |-> Top(p).ret.err, depth |-> Len(stack[p])])
    /\ UNCHANGED <<client, sf, reqLeft, nextTok, book>>

(* -------------------------------- Login ------------------------------- *)

\* the loop head: InvalidateToken(TokenLogin), then GetToken; past the
\* budget, the retry-exhausted error
LoginLoop(p) ==
    /\ Mutex(p)
    /\ At(p, "Login", "loop")
    /\ LET f == Top(p) IN
          IF f.attempt < f.retry
          THEN /\ InvalidateToken(TokenLogin)
               /\ Call(p, [f EXCEPT !.pc = "tok_ret"], GetTokenFrame(TokenLogin))
          ELSE /\ Return(p, Ret(NilResp,
                                Wrap("login retry exhausted",
                                     IF f.lastErr = NoErr
                                     THEN Plain("login retry exhausted")
                                     ELSE f.lastErr), ""))
               /\ UNCHANGED tokens
    /\ UNCHANGED <<loggedInUser, loginUser, loginPass, sf, log, reqLeft, nextTok, book>>

LoginTokRet(p) ==
    /\ Mutex(p)
    /\ At(p, "Login", "tok_ret")
    /\ LET f == Top(p) IN
          IF f.ret.err # NoErr
          THEN Return(p, Ret(NilResp, f.ret.err, ""))
          ELSE Call(p, [f EXCEPT !.pc = "post_ret"],
                    DoFrame("POST", [action |-> "login", lgname |-> f.user,
                                     lgpassword |-> f.pass, lgtoken |-> f.ret.val],
                            doOptions))
    /\ UNCHANGED <<client, sf, log, reqLeft, nextTok, book>>

\* lines 35-56: the login request returned no error and the result is
\* "success", compared without regard to case
LoginStoresAlways(err, res) == TRUE

LoginStoresOnAnyResult(err, res) == err = NoErr

LoginStores(err, res) == err = NoErr /\ ToLower(res) = "success"

\* line 61: the results that ask for a new login token
staleLoginResultNever(res) == FALSE

staleLoginResult(res) == ToLower(res) \in {"needtoken", "wrongtoken"}

\* lines 35-69: the outcome of the login request; a success stores the
\* credentials and the user name under c.mu
LoginPostRet(p) ==
    /\ Mutex(p)
    /\ At(p, "Login", "post_ret")
    /\ LET f == Top(p)
           err == f.ret.err
           resp == f.ret.resp
           continue == [f EXCEPT !.pc = "loop", !.attempt = f.attempt + 1]
       IN  /\ IF LoginStores(err, resp.result)
              THEN /\ loginUser' = f.user
                   /\ loginPass' = f.pass
                   /\ loggedInUser' = resp.lgname
              ELSE UNCHANGED <<loggedInUser, loginUser, loginPass>>
           /\ IF err # NoErr
              THEN IF IsMediaWikiApiError(err) /\ isTokenErrorCode(AsApi(err).code)
                   THEN Goto(p, [continue EXCEPT !.lastErr = err])
                   ELSE Return(p, Ret(NilResp, err, ""))
              ELSE CASE ToLower(resp.result) = "success" ->
                          Goto(p, [f EXCEPT !.pc = "invalAll", !.lgname = resp.lgname])
                     [] staleLoginResult(resp.result) ->
                          Goto(p, [continue EXCEPT !.lastErr = Plain("login token error")])
                     [] OTHER ->
                          Return(p, Ret(NilResp, Plain("login failed"), resp.result))
    /\ UNCHANGED <<tokens, sf, log, reqLeft, nextTok, book>>

LoginInvalAll(p) ==
    /\ Mutex(p)
    /\ At(p, "Login", "invalAll")
    /\ InvalidateAllTokens
    /\ Return(p, Ret(NilResp, NoErr, Top(p).lgname))
    /\ UNCHANGED <<loggedInUser, loginUser, loginPass, sf, log, reqLeft, nextTok, book>>

(* ------------------------------- GetToken ----------------------------- *)

\* lines 31-36: the cached value, if any
GetTokenCheck1(p) ==
    /\ Mutex(p)
    /\ At(p, "GetToken", "check1")
    /\ LET f == Top(p)
           tok == Get(tokens, f.tokenType)
       IN  IF tok # ""
           THEN Return(p, Ret(NilResp, NoErr, tok))
           ELSE Goto(p, [f EXCEPT !.pc = "sfDo"])
    /\ UNCHANGED <<client, sf, log, reqLeft, nextTok, book>>

\* singleflight.Group.Do: join the call in flight for the key, or start one
GetTokenSfDo(p) ==
    /\ Mutex(p)
    /\ At(p, "GetToken", "sfDo")
    /\ LET f == Top(p) IN
          IF sf[f.tokenType] # 0
          THEN /\ Goto(p, [f EXCEPT !.pc = "wait"])
               /\ UNCHANGED sf
          ELSE /\ Goto(p, [f EXCEPT !.pc = "check2"])
               /\ sf' = [sf EXCEPT ![f.tokenType] = p]
    /\ UNCHANGED <<client, log, reqLeft, nextTok, book>>

\* lines 40-45: the second look at the cache
SecondLookSkipped(cache, tokenType) == ""

SecondLook(cache, tokenType) == Get(cache, tokenType)

\* lines 40-51, inside the flight: the second look at the cache, then the fetch
GetTokenCheck2(p) ==
    /\ Mutex(p)
    /\ At(p, "GetToken", "check2")
    /\ LET f == Top(p)
           tok == SecondLook(tokens, f.tokenType)
       IN  IF tok # ""
           THEN Goto(p, [f EXCEPT !.pc = "sfDone", !.v = tok])
           ELSE Call(p, [f EXCEPT !.pc = "post_ret"],
                     DoFrame("POST", [action |-> "query", meta |-> "tokens",
                                      type |-> f.tokenType], doOptions))
    /\ UNCHANGED <<client, sf, log, reqLeft, nextTok, book>>

\* lines 61-63: c.tokens[tokenType] = tok
StoreTokenDropped(cache, tokenType, tok) == cache

StoreToken(cache, tokenType, tok) == Set(cache, tokenType, tok)

\* lines 52-64: the fetch returned; a token found is stored under c.mu
GetTokenPostRet(p) ==
    /\ Mutex(p)
    /\ At(p, "GetToken", "post_ret")
    /\ LET f == Top(p)
           tok == extractToken(f.ret.resp, f.tokenType)
       IN  IF f.ret.err # NoErr
           THEN /\ Goto(p, [f EXCEPT !.pc = "sfDone", !.err = f.ret.err])
                /\ UNCHANGED tokens
           ELSE IF tok = ""
           THEN /\ Goto(p, [f EXCEPT !.pc = "sfDone", !.err = Plain("missing token")])
                /\ UNCHANGED tokens
           ELSE /\ tokens' = StoreToken(tokens, f.tokenType, tok)
                /\ Goto(p, [f EXCEPT !.pc = "sfDone", !.v = tok])
    /\ UNCHANGED <<loggedInUser, loginUser, loginPass, sf, log, reqLeft, nextTok, book>>

\* the goroutines blocked in Do on the flight for tokenType
Waiting(q, tokenType) ==
    /\ Running(q)
    /\ Top(q).fn = "GetToken"
    /\ Top(q).pc = "wait"
    /\ Top(q).tokenType = tokenType

\* the flight ends: the key is forgotten, every waiter gets the flight's
\* result, and the goroutine that ran it returns (lines 66-69)
GetTokenSfDone(p) ==
    /\ Mutex(p)
    /\ At(p, "GetToken", "sfDone")
    /\ LET f == Top(p)
           out == IF f.err # NoErr THEN Ret(NilResp, f.err, "") ELSE Ret(NilResp, NoErr, f.v)
       IN  /\ sf' = [sf EXCEPT ![f.tokenType] = 0]
           /\ stack' = [q \in Procs |->
                          IF q = p THEN Popped(stack[p], out)
                          ELSE IF Waiting(q, f.tokenType)
                          THEN SetTop(stack[q], [Top(q) EXCEPT !.pc = "woken", !.ret = out])
                          ELSE stack[q]]
           /\ result' = [result EXCEPT ![p] = IF Len(stack[p]) = 1 THEN out ELSE @]
    /\ UNCHANGED <<client, log, reqLeft, nextTok, book>>

\* a waiter returns the shared result
GetTokenWoken(p) ==
    /\ Mutex(p)
    /\ At(p, "GetToken", "woken")
    /\ Return(p, Top(p).ret)
    /\ UNCHANGED <<client, sf, log, reqLeft, nextTok, book>>

(* ----------------------------- PostWithToken -------------------------- *)

\* line 95: whether an attempt drops the cached token first
MustInvalidateOnlyNoCache(attempt, noCache) == noCache

MustInvalidate(attempt, noCache) == attempt > 0 \/ noCache

\* lines 94-99: the loop head; past the budget, lines 127-130
PostWithTokenLoop(p) ==
    /\ Mutex(p)
    /\ At(p, "PostWithToken", "loop")
    /\ LET f == Top(p) IN
          IF f.attempt < f.retry
          THEN /\ IF MustInvalidate(f.attempt, f.noCache)
                  THEN InvalidateToken(f.tokenType)
                  ELSE UNCHANGED tokens
               /\ Call(p, [f EXCEPT !.pc = "tok_ret"], GetTokenFrame(f.tokenType))
          ELSE /\ Return(p, Ret(NilResp,
                                Wrap("token retry exhausted",
                                     IF f.lastErr = NoErr
                                     THEN Plain("token retry exhausted")
                                     ELSE f.lastErr), ""))
               /\ UNCHANGED tokens
    /\ UNCHANGED <<loggedInUser, loginUser, loginPass, sf, log, reqLeft, nextTok, book>>

PostWithTokenTokRet(p) ==
    /\ Mutex(p)
    /\ At(p, "PostWithToken", "tok_ret")
    /\ LET f == Top(p) IN
          IF f.ret.err # NoErr
          THEN Return(p, Ret(NilResp, f.ret.err, ""))
          ELSE LET p2 == Set(f.p2, f.tokenName, f.ret.val) IN
               Call(p, [f EXCEPT !.pc = "post_ret", !.p2 = p2],
                    DoFrame("POST", p2, doOptions))
    /\ UNCHANGED <<client, sf, log, reqLeft, nextTok, book>>

\* lines 105-124
PostWithTokenPostRet(p) ==
    /\ Mutex(p)
    /\ At(p, "PostWithToken", "post_ret")
    /\ LET f == Top(p)
           err == f.ret.err
           resp == f.ret.resp
           code == responseErrorCode(resp)
           continue == [f EXCEPT !.pc = "loop", !.attempt = f.attempt + 1]
       IN  IF err = NoErr
           THEN IF isTokenErrorCode(code)
                THEN Goto(p, [continue EXCEPT !.lastErr = ApiError(code, "token error")])
                ELSE Return(p, Ret(resp, NoErr, ""))
           ELSE IF IsMediaWikiApiError(err) /\ isTokenErrorCode(AsApi(err).code)
                THEN Goto(p, [continue EXCEPT !.lastErr = err])
                ELSE Return(p, Ret(resp, err, ""))
    /\ UNCHANGED <<client, sf, log, reqLeft, nextTok, book>>

(* -------------------------------- Logout ------------------------------ *)

LogoutStart(p) ==
    /\ Mutex(p)
    /\ At(p, "Logout", "start")
    /\ Call(p, [Top(p) EXCEPT !.pc = "pwt_ret"],
            PostWithTokenFrame(TokenCSRF, [action |-> "logout"], nilOpt, cfg.tokenRetry))
    /\ UNCHANGED <<client, sf, log, reqLeft, nextTok, book>>

\* lines 95-103
\* line 100: the current user after a logout
loggedInUserKept(u) == u

loggedInUserCleared(u) == ""

LogoutPwtRet(p) ==
    /\ Mutex(p)
    /\ At(p, "Logout", "pwt_ret")
    /\ LET f == Top(p) IN
          IF f.ret.err # NoErr
          THEN /\ Return(p, Ret(NilResp, f.ret.err, ""))
               /\ UNCHANGED <<loggedInUser, loginUser, loginPass>>
          ELSE /\ loggedInUser' = loggedInUserCleared(loggedInUser)
               /\ loginUser' = ""
               /\ loginPass' = ""
               /\ Goto(p, [f EXCEPT !.pc = "invalAll"])
    /\ UNCHANGED <<tokens, sf, log, reqLeft, nextTok, book>>

LogoutInvalAll(p) ==
    /\ Mutex(p)
    /\ At(p, "Logout", "invalAll")
    /\ InvalidateAllTokens
    /\ Return(p, Ret(NilResp, NoErr, ""))
    /\ UNCHANGED <<loggedInUser, loginUser, loginPass, sf, log, reqLeft, nextTok, book>>

(* --------------------------- the specification ------------------------ *)

\* one goroutine uses the client, making any of the calls of Calls
Init ==
    /\ InitClient
    /\ pf = NoNormalization
    /\ cfg \in Configs
    /\ env = [active |-> {1}, menu |-> [p \in Procs |-> Calls],
              maxCalls |-> [p \in Procs |-> MaxCalls], maxReq |-> MaxReq,
              pair |-> FALSE, first |-> NoRun]

Next ==
    \E p \in Procs:
       \/ Lock(p)
       \/ StartCall(p)
       \/ InvalidateStep(p)
       \/ DoAssert(p)
       \/ DoSend(p)
       \/ DoRecv(p)
       \/ DoReloginRet(p)
       \/ ReloginRead(p)
       \/ ReloginRet(p)
       \/ LoginLoop(p)
       \/ LoginTokRet(p)
       \/ LoginPostRet(p)
       \/ LoginInvalAll(p)
       \/ GetTokenCheck1(p)
       \/ GetTokenSfDo(p)
       \/ GetTokenCheck2(p)
       \/ GetTokenPostRet(p)
       \/ GetTokenSfDone(p)
       \/ PostWithTokenLoop(p)
       \/ PostWithTokenTokRet(p)
       \/ PostWithTokenPostRet(p)
       \/ LogoutStart(p)
       \/ LogoutPwtRet(p)
       \/ LogoutInvalAll(p)

Spec == Init /\ [][Next]_vars

\* the calls two goroutines make at the same time: the first any of them,
\* the second a token read or a login
ConcCalls ==
    [p \in Procs |->
       {[name |-> "GetToken", tokenType |-> TokenCSRF],
        [name |-> "Login", user |-> "alice", pass |-> "pw"]}
       \cup IF p = 1
             THEN {[name |-> "PostWithToken", tokenType |-> TokenCSRF,
                    p |-> [action |-> "edit"],
                    opt |-> [nilOpt EXCEPT !.NoCache = TRUE]],
                   [name |-> "Relogin"], [name |-> "Logout"],
                   [name |-> "InvalidateToken", tokenType |-> TokenCSRF]}
             ELSE {}]

ConcConfigs == {NewClient(t, TRUE, 1, 1) : t \in BOOLEAN}

\* every goroutine of Procs uses the one client
InitConc ==
    /\ InitClient
    /\ pf = NoNormalization
    /\ cfg \in ConcConfigs
    /\ env = [active |-> Procs, menu |-> ConcCalls,
              maxCalls |-> [p \in Procs |-> MaxCallsConc], maxReq |-> MaxReqConc,
              pair |-> FALSE, first |-> NoRun]

\* A second client, built with the other setting of WithThrowOnApiError
\* and in the session state the first was in before its last call, makes
\* that call against a server that gives the same answers in the same order.
Rerun(p) ==
    /\ Mutex(p)
    /\ env.pair
    /\ ~env.first.ran
    /\ ~Running(p)
    /\ ~result[p].none
    /\ op[p].name \in {"Get", "Post", "PostWithToken", "Login"}
    /\ env' = [env EXCEPT !.first = [ran |-> TRUE, log |-> log[p], result |-> result[p]]]
    /\ cfg' = [cfg EXCEPT !.throwOnApiError = ~@]
    /\ tokens' = pre[p].tokens
    /\ loggedInUser' = pre[p].loggedInUser
    /\ loginUser' = pre[p].loginUser
    /\ loginPass' = pre[p].loginPass
    /\ jar' = pre[p].jar
    /\ stack' = [stack EXCEPT ![p] = <<EntryFrame(op[p])>>]
    /\ result' = [result EXCEPT ![p] = NoResult]
    /\ log' = [log EXCEPT ![p] = <<>>]
    /\ reqLeft' = [reqLeft EXCEPT ![p] = env.maxReq]
    /\ calls' = [calls EXCEPT ![p] = env.maxCalls[p]]
    /\ UNCHANGED <<sf, op, pre, nextTok, ctxDone, pf>>

PairConfigs == {NewClient(t, TRUE, 1, MaxRetryPair) : t \in BOOLEAN}

InitPair ==
    /\ InitClient
    /\ pf = NoNormalization
    /\ cfg \in PairConfigs
    /\ env = [active |-> {1}, menu |-> [p \in Procs |-> Calls],
              maxCalls |-> [p \in Procs |-> MaxCalls], maxReq |-> MaxReqPair,
              pair |-> TRUE, first |-> NoRun]

NextPair == Next \/ \E p \in Procs: Rerun(p)

SpecPair == InitPair /\ [][NextPair]_vars

NextConc == Next \/ \E p \in Procs: GetTokenWoken(p)

SpecConc == InitConc /\ [][NextConc]_vars

(* ------------------------------ cancellation -------------------------- *)

\* The application cancels the ctx it passed to the call of p, or the
\* deadline of that ctx passes.
Cancel(p) ==
    /\ Running(p)
    /\ ~ctxDone[p]
    /\ ctxDone' = [ctxDone EXCEPT ![p] = TRUE]
    /\ UNCHANGED <<cfg, tokens, loggedInUser, loginUser, loginPass, sf, stack, result,
                   op, pre, log, calls, reqLeft, nextTok, env, jar, mu, pf>>

\* two goroutines call GetToken for the same kind, each with a ctx of its own
CancelCalls == [p \in Procs |-> {[name |-> "GetToken", tokenType |-> TokenCSRF]}]

\* relogin is off: a token fetch starts no Relogin
CancelConfigs == {NewClient(t, TRUE, 0, 1) : t \in BOOLEAN}

InitCancel ==
    /\ InitClient
    /\ pf = NoNormalization
    /\ cfg \in CancelConfigs
    /\ env = [active |-> Procs, menu |-> CancelCalls,
              maxCalls |-> [p \in Procs |-> MaxCallsConc], maxReq |-> MaxReqConc,
              pair |-> FALSE, first |-> NoRun]

NextCancel ==
    \E p \in Procs:
       \/ Cancel(p)
       \/ Lock(p)
       \/ StartCall(p)
       \/ DoAssert(p)
       \/ DoSend(p)
       \/ DoRecv(p)
       \/ GetTokenCheck1(p)
       \/ GetTokenSfDo(p)
       \/ GetTokenCheck2(p)
       \/ GetTokenPostRet(p)
       \/ GetTokenSfDone(p)
       \/ GetTokenWoken(p)

SpecCancel == InitCancel /\ [][NextCancel]_vars

(* ------------------ normalization and request building ---------------- *)

\* The parameter sets and endpoints explored: maps of at most MaxParamKeys
\* keys over every case of addAny's type switch, the other shapes of
\* normalizeParams' type switch, and endpoints whose URL carries no query,
\* a query with a default key, and a query with repeated keys.
ParamKeys == {"action", "format", "formatversion", "errorformat", "title", "file"}

ParamValues ==
    {Nil, Str(""), Str("edit"), Bytes, FileVal(""), FileVal("a.png"), NilFilePtr,
     Reader(""), Reader("up.bin"), Bool(TRUE), Bool(FALSE),
     Strings(<<>>), Strings(<<"a", "b">>),
     Anys(<<>>), Anys(<<Str("x"), IntVal(7)>>), Anys(<<Nil, Bool(TRUE)>>),
     Stringer("s"), IntVal(-12), Float(20), Float(-25)}

KeySets == {S \in SUBSET ParamKeys: Cardinality(S) <= MaxParamKeys}

ParamSets ==
    {ParamSet("nil", EmptyMap), ParamSet("nil pointer", EmptyMap), ParamSet("int", EmptyMap)}
    \cup {ParamSet("map[string]any", m) : m \in UNION {[S -> ParamValues] : S \in KeySets}}
    \cup {ParamSet("map[string]string", m) :
            m \in UNION {[S -> {"", "edit"}] : S \in SUBSET {"action", "title"}}}
    \cup {ParamSet(shape, m) :
            shape \in {"url.Values", "struct"},
            m \in UNION {[S -> {<<>>, <<"">>, <<"a", "b">>}] : S \in SUBSET {"action", "title"}}}

Endpoints ==
    {EmptyMap,
     [action |-> <<"raw">>, uselang |-> <<"en", "de">>],
     [title |-> <<"A", "B">>, file |-> <<"x">>, origin |-> <<"*">>]}

NoRequest == [method |-> "", query |-> EmptyMap, fields |-> EmptyMap, parts |-> <<>>,
              contentType |-> ""]

\* a client built for an endpoint, about to send the parameter set p
InitParams ==
    /\ InitClient
    /\ cfg = NewClient(FALSE, TRUE, -1, -1)
    /\ env = [active |-> {}, menu |-> [p \in Procs |-> {}],
              maxCalls |-> [p \in Procs |-> 0], maxReq |-> 0,
              pair |-> FALSE, first |-> NoRun]
    /\ \E e \in Endpoints, p \in ParamSets:
          pf = [step |-> "params", endpoint |-> e, p |-> p, enc |-> NoParams,
                np |-> NoParams, req |-> NoRequest]

\* Client.do, line 435: np, err := normalizeParams(p); the range over a map
\* visits its keys in any order
Normalize ==
    /\ pf.step = "params"
    /\ \E order \in KeyOrders(DOMAIN pf.p.m):
          pf' = [pf EXCEPT !.step = "normalized",
                           !.enc = encodeParams(pf.p, order),
                           !.np = normalizeParams(pf.p, order)]
    /\ UNCHANGED <<cfg, tokens, loggedInUser, loginUser, loginPass, sf, stack, result,
                   op, pre, log, calls, reqLeft, nextTok, env, jar, mu, ctxDone>>

\* doOnce, line 511: req, err := c.buildRequest(ctx, method, np), reached when
\* normalizeParams returned no error
BuildRequest ==
    /\ pf.step = "normalized"
    /\ pf.np.err = ""
    /\ \E method \in {"GET", "POST"}:
          pf' = [pf EXCEPT !.step = "built",
                           !.req = buildRequest(pf.endpoint, method, pf.np)]
    /\ UNCHANGED <<cfg, tokens, loggedInUser, loginUser, loginPass, sf, stack, result,
                   op, pre, log, calls, reqLeft, nextTok, env, jar, mu, ctxDone>>

NextParams == Normalize \/ BuildRequest

SpecParams == InitParams /\ [][NextParams]_vars

(* ------------------------------ the claims ---------------------------- *)

\* the one goroutine of Spec
P1 == CHOOSE p \in Procs: \A q \in Procs: p <= q

\* the top-level call of p has returned
Done(p) == ~Running(p) /\ ~result[p].none
DoneCall(p, names) == Done(p) /\ op[p].name \in names

Events(p, Test(_)) == SelectSeq(log[p], Test)
Count(p, Test(_)) == Len(SelectSeq(log[p], Test))
All(p, Test(_)) == \A i \in 1 .. Len(log[p]): Test(log[p][i])

IsTokenFetch(np, tokenType) ==
    /\ Get(np, "action") = "query"
    /\ Get(np, "meta") = "tokens"
    /\ Get(np, "type") = tokenType
IsAnyTokenFetch(np) == \E t \in TokenTypes: IsTokenFetch(np, t)
IsLoginReq(np) == Get(np, "action") = "login"
\* the request a PostWithToken call is made for
IsWrite(np) == Get(np, "action") \in {"edit", "logout"}

\* a response that carries the token asked for, a login success, an
\* envelope without an error
GoodFetch(ev) == ev.err = NoErr /\ \E t \in TokenTypes:
                    IsTokenFetch(ev.np, t) /\ extractToken(ev.resp, t) # ""
GoodLogin(ev) == ev.err = NoErr /\ responseErrorCode(ev.resp) = ""
                 /\ ev.resp.result = "Success"
Accepted(ev) == ev.resp.status # 0 /\ responseErrorCode(ev.resp) = ""
TokenRejected(ev) == isTokenErrorCode(responseErrorCode(ev.resp))
AssertRejected(ev) == isAssertUserFailedCode(responseErrorCode(ev.resp))

SendOf(ev, Req(_)) == ev.e = "send" /\ Req(ev.np)
RecvOf(ev, Req(_)) == ev.e = "recv" /\ Req(ev.np)

NFetches(p) == Count(p, LAMBDA ev: SendOf(ev, IsAnyTokenFetch))
NWrites(p) == Count(p, LAMBDA ev: SendOf(ev, IsWrite))
NWritesRejected(p) == Count(p, LAMBDA ev: RecvOf(ev, IsWrite) /\ TokenRejected(ev))
NWritesAccepted(p) == Count(p, LAMBDA ev: RecvOf(ev, IsWrite) /\ Accepted(ev))
LastEvent(p) == log[p][Len(log[p])]

\* the server of the token scenarios: every token fetch is answered with a
\* token, every write with a token-error code or an envelope without error
TokenScenario(p) ==
    All(p, LAMBDA ev: /\ ev.e = "recv" =>
                            \/ RecvOf(ev, IsAnyTokenFetch) /\ GoodFetch(ev)
                            \/ RecvOf(ev, IsWrite) /\ (TokenRejected(ev) \/ Accepted(ev)))

\* the retry budget of the PostWithToken call of p
Budget(p) == IF op[p].opt.Retry > 0 THEN op[p].opt.Retry ELSE cfg.tokenRetry

\* C1: a PostWithToken call that began with an empty token cache and whose
\* write was answered with a token-error code k-1 times and then accepted
\* has sent exactly k token fetches and exactly k writes, k within the retry
\* budget, and returns the accepted response with a nil error.
C1_RetryOnBadToken ==
    (/\ DoneCall(P1, {"PostWithToken"})
     /\ pre[P1].tokens = EmptyMap
     /\ TokenScenario(P1)
     /\ NWritesAccepted(P1) = 1)
    => LET k == NWritesRejected(P1) + 1 IN
       /\ k <= Budget(P1)
       /\ NFetches(P1) = k
       /\ NWrites(P1) = k
       /\ result[P1].err = NoErr
       /\ result[P1].resp = LastEvent(P1).resp
       /\ Accepted(LastEvent(P1))

\* the scenario of the repository's test: rejected once, accepted on the
\* second attempt
C1_Witness ==
    /\ DoneCall(P1, {"PostWithToken"})
    /\ pre[P1].tokens = EmptyMap
    /\ TokenScenario(P1)
    /\ NWritesAccepted(P1) = 1
    /\ NWritesRejected(P1) = 1
    /\ NFetches(P1) = 2
    /\ NWrites(P1) = 2

\* C2: when every write is answered with a token-error code, PostWithToken
\* sends as many writes as its retry budget (opt.Retry if > 0, else the
\* client's tokenRetry), then returns a nil response and a "token retry
\* exhausted" error that wraps the last token-error failure with its code.
C2_RetryExhausted ==
    (/\ DoneCall(P1, {"PostWithToken"})
     /\ TokenScenario(P1)
     /\ NWritesAccepted(P1) = 0)
    => /\ NWrites(P1) = Budget(P1)
       /\ result[P1].resp = NilResp
       /\ result[P1].err.k = "wrap"
       /\ result[P1].err.msg = "token retry exhausted"
       /\ IsMediaWikiApiError(result[P1].err)
       /\ AsApi(result[P1].err).code = responseErrorCode(LastEvent(P1).resp)
       /\ isTokenErrorCode(AsApi(result[P1].err).code)

\* the default budget is used up: three writes, all rejected
C2_Witness ==
    /\ DoneCall(P1, {"PostWithToken"})
    /\ TokenScenario(P1)
    /\ NWritesAccepted(P1) = 0
    /\ op[P1].opt.Retry = 0
    /\ cfg.tokenRetry = DefaultTokenRetry
    /\ NWrites(P1) = DefaultTokenRetry
    /\ result[P1].err.k = "wrap"

\* events of the request a Get or Post call was made for (its do frame is
\* the outermost frame), and of the requests made inside its relogins
Main(ev) == ev.depth = 1
Inner(ev) == ev.depth > 1

NMainSends(p) == Count(p, LAMBDA ev: ev.e = "send" /\ Main(ev))
NMainAssertRejected(p) == Count(p, LAMBDA ev: ev.e = "recv" /\ Main(ev) /\ AssertRejected(ev))
NMainAccepted(p) == Count(p, LAMBDA ev: ev.e = "recv" /\ Main(ev) /\ Accepted(ev))
NRelogins(p) == Count(p, LAMBDA ev: ev.e = "relogin")

\* credentials were stored when the call of p began
HadCredentials(p) == pre[p].loginUser # "" /\ pre[p].loginPass # ""

\* the server of the relogin scenarios: the request itself is answered with
\* an assertion failure or an envelope without error, and inside every
\* relogin the login token is handed out and the login succeeds
ReloginScenario(p) ==
    All(p, LAMBDA ev: ev.e = "recv" =>
              \/ Main(ev) /\ (AssertRejected(ev) \/ Accepted(ev))
              \/ Inner(ev) /\ RecvOf(ev, LAMBDA np: IsTokenFetch(np, TokenLogin)) /\ GoodFetch(ev)
              \/ Inner(ev) /\ RecvOf(ev, IsLoginReq) /\ GoodLogin(ev))

\* C3: a Get or Post made with stored credentials whose response is an
\* assertion failure j times in a row and then accepted, every relogin
\* succeeding, has made exactly j Relogin calls and j + 1 sends of the
\* request, j within reloginRetry, and returns the accepted response with a
\* nil error.
C3_ReloginAndReplay ==
    (/\ DoneCall(P1, {"Get", "Post"})
     /\ HadCredentials(P1)
     /\ ReloginScenario(P1)
     /\ NMainAccepted(P1) = 1)
    => LET j == NMainAssertRejected(P1) IN
       /\ j <= cfg.reloginRetry
       /\ NRelogins(P1) = j
       /\ NMainSends(P1) = j + 1
       /\ result[P1].err = NoErr
       /\ result[P1].resp = LastEvent(P1).resp
       /\ Accepted(LastEvent(P1))

\* the scenario of the repository's test: one assertion failure, one
\* relogin, one replay
C3_Witness ==
    /\ DoneCall(P1, {"Get", "Post"})
    /\ HadCredentials(P1)
    /\ ReloginScenario(P1)
    /\ NMainAccepted(P1) = 1
    /\ NMainAssertRejected(P1) = 1
    /\ NRelogins(P1) = 1
    /\ NMainSends(P1) = 2
    /\ result[P1].err = NoErr

\* the other goroutine of SpecConc
P2 == CHOOSE p \in Procs: p # P1

\* P1 and P2 each made one call, GetToken for the csrf token, both calls
\* have returned, each began while the token was not cached, and one began
\* while the other was running.  No other call was ever made on the client,
\* and with no credentials stored no relogin succeeds, so nothing has
\* invalidated a token.
ConcurrentGetToken ==
    /\ \A p \in {P1, P2}:
          /\ DoneCall(p, {"GetToken"})
          /\ op[p].tokenType = TokenCSRF
          /\ calls[p] = 1
          /\ TokenCSRF \notin DOMAIN pre[p].tokens
    /\ P1 \in pre[P2].running \/ P2 \in pre[P1].running

TotalFetches ==
    Count(P1, LAMBDA ev: SendOf(ev, LAMBDA np: IsTokenFetch(np, TokenCSRF)))
    + Count(P2, LAMBDA ev: SendOf(ev, LAMBDA np: IsTokenFetch(np, TokenCSRF)))

\* C4 as stated: two concurrent GetToken calls for an uncached kind issue
\* exactly one fetch request and return the same value or the same failure.
C4_ExactlyOneFetch ==
    ConcurrentGetToken => TotalFetches = 1 /\ result[P1] = result[P2]

\* C4: two concurrent GetToken calls for an uncached kind issue one fetch
\* request or two; when one request was issued both return its result, the
\* same value or the same failure; a second request is issued only after a
\* fetch that failed, so two calls that both return a value issued one
\* request and return the same value.
C4_CoalescedFetch ==
    ConcurrentGetToken =>
       /\ TotalFetches \in {1, 2}
       /\ TotalFetches = 1 => result[P1] = result[P2]
       /\ TotalFetches = 2 => \E p \in {P1, P2}: result[p].err # NoErr
       /\ (result[P1].err = NoErr /\ result[P2].err = NoErr)
             => /\ result[P1].val = result[P2].val
                /\ tokens = [k \in {TokenCSRF} |-> result[P1].val]

\* one request was issued, it failed, and both callers return its failure:
\* the second caller waited for the flight of the first
C4_Witness ==
    /\ ConcurrentGetToken
    /\ TotalFetches = 1
    /\ result[P1].err # NoErr
    /\ result[P1] = result[P2]

\* the session state of the client
Session == [loggedInUser |-> loggedInUser, loginUser |-> loginUser,
            loginPass |-> loginPass]
SessionOf(snap) == [loggedInUser |-> snap.loggedInUser, loginUser |-> snap.loginUser,
                    loginPass |-> snap.loginPass]
LoggedOut == [loggedInUser |-> "", loginUser |-> "", loginPass |-> ""]

\* C5: after Logout returns, with or without an error, the token cache is
\* empty and loggedInUser and the stored user name and password are empty.
C5_LogoutAlwaysClears ==
    DoneCall(P1, {"Logout"}) => tokens = EmptyMap /\ Session = LoggedOut

\* C6: when Login(user, pass) returns without error, the stored credentials
\* are (user, pass), loggedInUser is the name the server returned, and the
\* token cache has no entry of any kind.
C6_LoginSuccess ==
    (DoneCall(P1, {"Login"}) /\ result[P1].err = NoErr)
    => /\ loginUser = op[P1].user
       /\ loginPass = op[P1].pass
       /\ RecvOf(LastEvent(P1), IsLoginReq)
       /\ ToLower(LastEvent(P1).resp.result) = "success"
       /\ loggedInUser = LastEvent(P1).resp.lgname
       /\ result[P1].val = loggedInUser
       /\ tokens = EmptyMap

\* a login that succeeds while a csrf token is cached
C6_Witness ==
    /\ DoneCall(P1, {"Login"})
    /\ result[P1].err = NoErr
    /\ TokenCSRF \in DOMAIN pre[P1].tokens
    /\ loggedInUser # ""
    /\ tokens = EmptyMap

\* C7: a Login call that returns an error leaves loggedInUser and the stored
\* user name and password as they were when the call began.
C7_FailedLoginKeepsSession ==
    (DoneCall(P1, {"Login"}) /\ result[P1].err # NoErr)
    => Session = SessionOf(pre[P1])

\* a failed login of another user on a client that is logged in, and a
\* failed login on a client that is logged out
C7_Witness ==
    /\ DoneCall(P1, {"Login"})
    /\ result[P1].err # NoErr
    /\ \/ pre[P1].loggedInUser # "" /\ pre[P1].loginUser # op[P1].user
       \/ pre[P1].loggedInUser = "" /\ Len(log[P1]) >= 4

\* a request that is never given an injected assertuser: action=login, and
\* the fetch of a token whose type names the login token
Exempt(np) ==
    \/ ToLower(Get(np, "action")) = "login"
    \/ /\ ToLower(Get(np, "action")) = "query"
       /\ ToLower(Get(np, "meta")) = "tokens"
       /\ ContainsLogin(ToLower(Get(np, "type")))

\* the assertuser the caller of Get or Post supplied with the request of ev
Supplied(p, ev) ==
    IF ev.depth = 1 /\ op[p].name \in {"Get", "Post"}
    THEN Get(op[p].p, "assertuser")
    ELSE ""

\* the assertuser a request sent while cur is logged in must carry
Expected(p, ev) ==
    IF Supplied(p, ev) # "" THEN Supplied(p, ev)
    ELSE IF cfg.keepLogin /\ ev.cur # "" /\ ~Exempt(ev.np) THEN ev.cur
    ELSE ""

ReloginsSucceeded(p) ==
    All(p, LAMBDA ev: ev.e = "relogin_ret" => ev.err = NoErr)

\* C9: a Get or Post whose every response is an assertion failure, every
\* relogin succeeding, makes exactly reloginRetry Relogin calls and
\* reloginRetry + 1 sends of the request and returns an error that carries
\* the assertion-failure code, in both error modes; with reloginRetry = 0
\* that is no Relogin and one send.
C9_ReloginExhausted ==
    (/\ DoneCall(P1, {"Get", "Post"})
     /\ ReloginScenario(P1)
     /\ ReloginsSucceeded(P1)
     /\ NMainAccepted(P1) = 0)
    => /\ NRelogins(P1) = cfg.reloginRetry
       /\ NMainSends(P1) = cfg.reloginRetry + 1
       /\ result[P1].err # NoErr
       /\ IsMediaWikiApiError(result[P1].err)
       /\ isAssertUserFailedCode(AsApi(result[P1].err).code)
       /\ AsApi(result[P1].err).code = responseErrorCode(LastEvent(P1).resp)

\* a budget of two relogins is used up
C9_Witness ==
    /\ DoneCall(P1, {"Get", "Post"})
    /\ ReloginScenario(P1)
    /\ ReloginsSucceeded(P1)
    /\ NMainAccepted(P1) = 0
    /\ cfg.reloginRetry = MaxReloginCfg
    /\ NRelogins(P1) = MaxReloginCfg
    /\ NMainSends(P1) = MaxReloginCfg + 1

\* the Relogin called by the do frame of a Get or Post returned an error
FailedMainRelogin(p, i) ==
    /\ log[p][i].e = "relogin_ret"
    /\ log[p][i].depth = 2
    /\ log[p][i].err # NoErr

\* C10: when the Relogin triggered by an assertion failure fails, the Get
\* or Post sends nothing more and returns an error that holds both the
\* assertion failure and the failure of the relogin.
C10_ReloginFails ==
    op[P1].name \in {"Get", "Post"} =>
       \A i \in 1 .. Len(log[P1]):
          FailedMainRelogin(P1, i) =>
             /\ i = Len(log[P1])
             /\ Done(P1) =>
                   /\ result[P1].err.k = "join"
                   /\ IsMediaWikiApiError(result[P1].err.a)
                   /\ isAssertUserFailedCode(AsApi(result[P1].err.a).code)
                   /\ result[P1].err.b = log[P1][i].err

\* the stored credentials are refused by the server during the relogin
C10_Witness ==
    /\ DoneCall(P1, {"Get", "Post"})
    /\ HadCredentials(P1)
    /\ FailedMainRelogin(P1, Len(log[P1]))
    /\ LastEvent(P1).err = Plain("login failed")
    /\ result[P1].err.k = "join"

\* C11: a Relogin made while no credentials are stored (no Login has
\* succeeded) sends no request and returns the no-stored-credentials error;
\* made with stored credentials it calls Login with them: it asks for a login
\* token first, every login request it sends carries the stored user name
\* and password, and it returns what Login returned.
C11_Relogin ==
    op[P1].name = "Relogin" =>
       IF ~HadCredentials(P1)
       THEN /\ All(P1, LAMBDA ev: ev.e # "send")
            /\ Done(P1) => result[P1].err = NoStoredCredentials
       ELSE /\ All(P1, LAMBDA ev: SendOf(ev, IsLoginReq) =>
                        /\ Get(ev.np, "lgname") = pre[P1].loginUser
                        /\ Get(ev.np, "lgpassword") = pre[P1].loginPass)
            /\ Done(P1) =>
                  /\ Len(log[P1]) >= 2
                  /\ log[P1][1].e = "relogin"
                  /\ SendOf(log[P1][2], LAMBDA np: IsTokenFetch(np, TokenLogin))
                  /\ LastEvent(P1).e = "relogin_ret"
                  /\ result[P1].err = LastEvent(P1).err
                  /\ result[P1].err # NoStoredCredentials

\* a Relogin with stored credentials that logs in again
C11_Witness ==
    /\ DoneCall(P1, {"Relogin"})
    /\ HadCredentials(P1)
    /\ result[P1].err = NoErr
    /\ Count(P1, LAMBDA ev: SendOf(ev, IsLoginReq)) = 1

\* C12: once a login response has set the session cookie, every request
\* sent after it, in the same call and in every later call, carries it, and
\* the jar still holds it.
C12_CookiePersists ==
    /\ pre[P1].jar # "" =>
          /\ jar = pre[P1].jar
          /\ All(P1, LAMBDA ev: ev.e = "send" => ev.cookie = pre[P1].jar)
    /\ \A i, j \in 1 .. Len(log[P1]):
          (/\ i < j
           /\ log[P1][i].e = "recv"
           /\ log[P1][i].resp.setCookie # ""
           /\ log[P1][j].e = "send")
          => log[P1][j].cookie = log[P1][i].resp.setCookie

\* the scenario of the repository's test: Login, then a csrf token fetch
C12_Witness ==
    /\ DoneCall(P1, {"GetToken"})
    /\ op[P1].tokenType = TokenCSRF
    /\ pre[P1].jar = SessionCookie
    /\ NFetches(P1) = 1
    /\ log[P1][1].e = "send"
    /\ log[P1][1].cookie = SessionCookie
    /\ result[P1].err = NoErr

\* the step stores credentials in the Login of p whose request was answered
\* with a success, or clears them in the Logout of p
StoredByLogin(p) ==
    /\ At(p, "Login", "post_ret")
    /\ Top(p).ret.err = NoErr
    /\ ToLower(Top(p).ret.resp.result) = "success"
    /\ loginUser' = Top(p).user
    /\ loginPass' = Top(p).pass

ClearedByLogout(p) ==
    /\ At(p, "Logout", "pwt_ret")
    /\ loginUser' = ""
    /\ loginPass' = ""

CredentialsKept ==
    (\/ DoneCall(P1, {"Get", "Post", "GetToken", "PostWithToken",
                      "InvalidateToken", "InvalidateAllTokens"})
     \/ DoneCall(P1, {"Login"}) /\ result[P1].err # NoErr)
    => loginUser = pre[P1].loginUser /\ loginPass = pre[P1].loginPass

\* C13: the stored user name and password change only in a step of a Login
\* whose login request succeeded, which sets them to the arguments of that
\* Login, and in a step of Logout, which clears them; after a Get, Post,
\* GetToken, PostWithToken, InvalidateToken, InvalidateAllTokens or a failed
\* Login they are what they were before the call.
C13_CredentialsChange ==
    /\ []CredentialsKept
    /\ [][<<loginUser, loginPass>>' # <<loginUser, loginPass>>
            => \E p \in Procs: StoredByLogin(p) \/ ClearedByLogout(p)]_vars

\* a Get or Post that logged in again on the way and left the stored
\* credentials as they were
C13_Witness ==
    /\ DoneCall(P1, {"Get", "Post"})
    /\ HadCredentials(P1)
    /\ NRelogins(P1) >= 1
    /\ result[P1].err = NoErr
    /\ loginUser = pre[P1].loginUser
    /\ loginPass = pre[P1].loginPass

\* err is x, or a join whose relogin part is or holds x
RECURSIVE Surfaces(_, _)
Surfaces(err, x) ==
    \/ err = x
    \/ err.k = "join" /\ Surfaces(err.b, x)

\* the i-th event of the call of p: the network call failed in transport
TransportFailure(p, i) == log[p][i].e = "recv" /\ log[p][i].resp.status = 0

\* C14: a network call that fails in transport (or is cancelled) yields the
\* transport error, not an API error; the call sends nothing after it and
\* starts no relogin; it returns that error, as it is when no relogin was
\* under way and else joined to the assertion failure that began the relogin.
C14_TransportFailure ==
    \A i \in 1 .. Len(log[P1]):
       TransportFailure(P1, i) =>
          /\ log[P1][i].err = TransportErr
          /\ ~IsMediaWikiApiError(log[P1][i].err)
          /\ \A j \in (i + 1) .. Len(log[P1]): log[P1][j].e = "relogin_ret"
          /\ Done(P1) =>
                /\ Surfaces(result[P1].err, TransportErr)
                /\ result[P1].resp = NilResp \/ NRelogins(P1) > 0
                /\ NRelogins(P1) = 0 => result[P1].err = TransportErr

\* the write of a PostWithToken fails in transport after its token fetch
C14_Witness ==
    /\ DoneCall(P1, {"PostWithToken"})
    /\ Len(log[P1]) = 4
    /\ TransportFailure(P1, 4)
    /\ RecvOf(log[P1][4], IsWrite)
    /\ result[P1].err = TransportErr

\* a failure that is neither a token error nor an assertion failure: a
\* transport failure, or the API error of a response with another code
GenericFailure(err) ==
    \/ err = TransportErr
    \/ err.k = "api" /\ err.code = "ratelimited"

\* in a PostWithToken call the write is sent by the do frame at depth 2 and
\* the token is fetched by the do frame at depth 3
WriteEvent(ev) == ev.e \in {"send", "recv"} /\ ev.depth = 2
FetchEvent(ev) == ev.e \in {"send", "recv"} /\ ev.depth = 3

\* the last answer to the token fetch, when GetToken returned an error: it
\* holds no token and no later fetch followed
FailedFetch(p, i) ==
    /\ log[p][i].e = "recv"
    /\ FetchEvent(log[p][i])
    /\ ~GoodFetch(log[p][i])
    /\ \A j \in (i + 1) .. Len(log[p]): ~FetchEvent(log[p][j])

\* C15: in PostWithToken, a write that ends in a failure that is neither a
\* token error nor an assertion failure is the last thing the call does: no
\* fetch and no write follows, and the call returns the response and the
\* failure of that write as they are; and when the token fetch fails no
\* write follows it and the call returns an error that is not the
\* retry-exhausted error.
C15_AbortOnOtherFailure ==
    op[P1].name = "PostWithToken" =>
       \A i \in 1 .. Len(log[P1]):
          /\ (/\ log[P1][i].e = "recv"
              /\ WriteEvent(log[P1][i])
              /\ GenericFailure(log[P1][i].err))
             => /\ i = Len(log[P1])
                /\ Done(P1) => /\ result[P1].err = log[P1][i].err
                               /\ result[P1].resp = log[P1][i].resp
          /\ (Done(P1) /\ FailedFetch(P1, i))
             => /\ \A j \in (i + 1) .. Len(log[P1]): ~WriteEvent(log[P1][j])
                /\ result[P1].err # NoErr
                /\ result[P1].err.k # "wrap"
                /\ result[P1].resp = NilResp
                /\ log[P1][i].err # NoErr /\ ~AssertRejected(log[P1][i])
                      => result[P1].err = log[P1][i].err

\* strict mode: the second write is answered with a generic API error
C15_Witness ==
    /\ DoneCall(P1, {"PostWithToken"})
    /\ cfg.throwOnApiError
    /\ NWrites(P1) = 2
    /\ NFetches(P1) = 2
    /\ LastEvent(P1).e = "recv"
    /\ WriteEvent(LastEvent(P1))
    /\ LastEvent(P1).err = ApiError("ratelimited", "MediaWiki API error")
    /\ result[P1].err = LastEvent(P1).err

\* the response carries an error object or a non-empty error list
CarriesError(resp) == resp.error # "" \/ Len(resp.errors) > 0

\* the code of the error object, else of the first error of the list
FirstErrorCode(resp) == IF resp.error # "" THEN resp.error ELSE resp.errors[1]

\* the last answer to the request a Get or Post call was made for
LastMainRecv(p) ==
    LET idx == {i \in 1 .. Len(log[p]): log[p][i].e = "recv" /\ Main(log[p][i])}
    IN  log[p][CHOOSE i \in idx: \A j \in idx: j <= i]

\* C16: with throwOnApiError on, a Get or Post whose last response carries
\* an error object or a non-empty error list returns that response and an
\* API error whose code is the code of the error object, or else of the
\* first error of the list; with it off, a last response carrying an error
\* other than an assertion failure is returned with a nil error.
C16_StrictMode ==
    DoneCall(P1, {"Get", "Post"}) =>
       LET ev == LastMainRecv(P1) IN
       CarriesError(ev.resp) =>
          IF cfg.throwOnApiError
          THEN /\ result[P1].err # NoErr
               /\ IsMediaWikiApiError(result[P1].err)
               /\ AsApi(result[P1].err).code = FirstErrorCode(ev.resp)
               /\ result[P1].resp = ev.resp
          ELSE ~isAssertUserFailedCode(FirstErrorCode(ev.resp))
               => /\ result[P1].err = NoErr
                  /\ result[P1].resp = ev.resp

\* strict mode: an error list is turned into an error with the first code
C16_Witness ==
    /\ DoneCall(P1, {"Get", "Post"})
    /\ cfg.throwOnApiError
    /\ LastMainRecv(P1).resp.errors = <<"ratelimited", "badtoken">>
    /\ result[P1].err = ApiError("ratelimited", "MediaWiki API error")

\* the requests and relogins of a run, in order: what was sent, and where a
\* Relogin began
RECURSIVE Requests(_)
Requests(l) ==
    IF l = <<>> THEN <<>>
    ELSE LET ev == Head(l)
             this == IF ev.e = "send" THEN <<[e |-> "send", np |-> ev.np, method |-> ev.method]>>
                     ELSE IF ev.e = "relogin" THEN <<[e |-> "relogin"]>>
                     ELSE <<>>
         IN  this \o Requests(Tail(l))

\* a run failed: it returned an error, or the response it returned carries
\* an error left for the caller to inspect
Failed(res) == res.err # NoErr \/ CarriesError(res.resp)

\* the call of P1 was made twice, with throwOnApiError off and on, against
\* the same server answers, and both runs have returned
BothRunsDone(names) == env.first.ran /\ DoneCall(P1, names)

\* C17: for the same server answers, a PostWithToken, Get or Post sends the
\* same requests and starts the same relogins in the same order, and fails
\* or succeeds alike, with throwOnApiError on and off.
C17_SameRecovery ==
    BothRunsDone({"Get", "Post", "PostWithToken"}) =>
       /\ Requests(log[P1]) = Requests(env.first.log)
       /\ Failed(result[P1]) = Failed(env.first.result)

(* ---- parameter normalization and request building (SpecParams) ---- *)

Normalized == pf.step \in {"normalized", "built"}

DefaultKeys == {"action", "format", "formatversion", "errorformat"}

DefaultOf(k) ==
    CASE k = "action" -> "query"
      [] k = "format" -> "json"
      [] k = "formatversion" -> "2"
      [] k = "errorformat" -> "plaintext"

\* the caller supplied the empty text for a default key
EmptySupplied(k) == k \in DOMAIN pf.enc.Values /\ pf.enc.Values[k] = ""

\* C18: after normalizeParams, each of the four default keys holds the
\* caller's value whenever the per-field encoding of the caller's
\* parameters produced that field (the empty text included), and holds the
\* default only when the encoding produced no such field.
C18_DefaultsOnlyWhenAbsent ==
    (Normalized /\ pf.np.err = "") =>
        \A k \in DefaultKeys:
            /\ k \in DOMAIN pf.np.Values
            /\ pf.np.Values[k] =
                  IF k \in DOMAIN pf.enc.Values THEN pf.enc.Values[k] ELSE DefaultOf(k)

\* what holds in the code: the default also replaces an empty text
C18_DefaultsWhenAbsentOrEmpty ==
    (Normalized /\ pf.np.err = "") =>
        \A k \in DefaultKeys:
            /\ k \in DOMAIN pf.np.Values
            /\ pf.np.Values[k] =
                  IF k \in DOMAIN pf.enc.Values /\ ~EmptySupplied(k)
                  THEN pf.enc.Values[k] ELSE DefaultOf(k)

C18_EmptyOverwritten ==
    Normalized /\ \E k \in DefaultKeys: EmptySupplied(k) /\ pf.np.Values[k] = DefaultOf(k)

\* The encoding table, row by row, for the values explored: the text of
\* the field a value becomes, Omitted for no field.
Omitted == [omitted |-> TRUE, text |-> ""]

Text(s) == [omitted |-> FALSE, text |-> s]

InTable(v) ==
    v \in {Nil, Str(""), Str("edit"), Bool(TRUE), Bool(FALSE), Strings(<<"a", "b">>),
           Anys(<<Str("x"), IntVal(7)>>), IntVal(-12), Float(20), Float(-25),
           Bytes, Reader(""), Reader("up.bin")}

IsAttachment(v) == v \in {Bytes, Reader(""), Reader("up.bin")}

Table(v) ==
    CASE v = Nil -> Omitted
      [] v = Str("") -> Text("")
      [] v = Str("edit") -> Text("edit")
      [] v = Bool(TRUE) -> Text("1")
      [] v = Bool(FALSE) -> Omitted
      [] v = Strings(<<"a", "b">>) -> Text("a|b")
      [] v = Anys(<<Str("x"), IntVal(7)>>) -> Text("x|7")
      [] v = IntVal(-12) -> Text("-12")
      [] v = Float(20) -> Text("2")
      [] v = Float(-25) -> Text("-2.5")
      [] IsAttachment(v) -> Omitted

\* the filename the table gives the attachment made of v under key k
TableFilename(k, v) == IF v = Reader("up.bin") THEN "up.bin" ELSE k

FilesOf(np, k) == {i \in 1 .. Len(np.Files): np.Files[i].Field = k}

\* the field of key k is as the table says; a default key whose row gives
\* no field or the empty text is left to the defaults
FieldAsTable(np, k, v) ==
    IF Table(v).omitted \/ (k \in DefaultKeys /\ Table(v).text = "")
    THEN k \in DefaultKeys \/ k \notin DOMAIN np.Values
    ELSE k \in DOMAIN np.Values /\ np.Values[k] = Table(v).text

FilesAsTable(np, k, v) ==
    IF IsAttachment(v)
    THEN /\ Cardinality(FilesOf(np, k)) = 1
         /\ \A i \in FilesOf(np, k): np.Files[i].Filename = TableFilename(k, v)
    ELSE FilesOf(np, k) = {}

Built(method) == pf.step = "built" /\ pf.req.method = method

Colliding == (DOMAIN pf.endpoint) \cap (DOMAIN pf.np.Values)

AttachmentInQuery ==
    Built("POST") /\ \E i \in 1 .. Len(pf.req.parts): pf.req.parts[i].Field \in DOMAIN pf.req.query

(* ------------------------- the token cache (Spec) --------------------- *)

\* the kind a GetToken call of p asks for
Kind(p) == op[p].tokenType

ReturnedToken(p) == DoneCall(p, {"GetToken"}) /\ result[p].err = NoErr

\* C21: when a GetToken call has returned a value, the cache holds that
\* value for the kind (nothing has invalidated it since), and a GetToken
\* call that began with a value cached for its kind returned that very
\* value without sending a request.
C21_CachedToken ==
    ReturnedToken(P1) =>
        /\ result[P1].val # ""
        /\ Get(tokens, Kind(P1)) = result[P1].val
        /\ Get(pre[P1].tokens, Kind(P1)) # "" =>
              /\ result[P1].val = pre[P1].tokens[Kind(P1)]
              /\ log[P1] = <<>>

\* a second GetToken call answered from the cache the first one filled
C21_Witness ==
    /\ ReturnedToken(P1)
    /\ calls[P1] = 2
    /\ Get(pre[P1].tokens, Kind(P1)) # ""
    /\ result[P1].val = pre[P1].tokens[Kind(P1)]
    /\ log[P1] = <<>>

\* the response carries no value for the kind
LacksToken(resp, tokenType) ==
    resp.status # 0 /\ (tokenType \notin DOMAIN resp.tokens \/ resp.tokens[tokenType] = "")

MissingToken == Plain("missing token")

\* the step of p in which GetToken handles a fetch that returned no error
\* and a response without the token
HandlesMissing(p) ==
    /\ At(p, "GetToken", "post_ret")
    /\ Top(p).ret.err = NoErr
    /\ LacksToken(Top(p).ret.resp, Top(p).tokenType)
    /\ stack'[p] # stack[p]

\* a GetToken call whose last fetch came back from Post without an error
\* (no transport or strict-mode failure, no assertion failure) and without
\* the token
EndedMissing(p) ==
    /\ DoneCall(p, {"GetToken"})
    /\ log[p] # <<>>
    /\ LastEvent(p).e = "recv"
    /\ LastEvent(p).depth = 2
    /\ LastEvent(p).err = NoErr
    /\ ~AssertRejected(LastEvent(p))
    /\ LacksToken(LastEvent(p).resp, Kind(p))

\* C22: no cached token is ever the empty text; the step in which GetToken
\* finds no value for its kind in a fetched response leaves the cache as it
\* was and records the missing-token error; and a GetToken call whose fetch
\* ended so returns that error and no value.
C22_MissingToken ==
    /\ [](\A k \in DOMAIN tokens: tokens[k] # "")
    /\ [](EndedMissing(P1) => result[P1].err = MissingToken /\ result[P1].val = "")
    /\ [][\A p \in Procs:
            HandlesMissing(p) =>
                /\ tokens' = tokens
                /\ stack'[p][Len(stack'[p])].err = MissingToken]_vars

\* with a token cached for the other kind, a fetch answered by an envelope
\* without tokens ended the call with the error and left the cache alone
C22_Witness ==
    /\ EndedMissing(P1)
    /\ result[P1].err = MissingToken
    /\ tokens # EmptyMap
    /\ tokens = pre[P1].tokens

(* ------------------------------ c.mu (SpecConc) ----------------------- *)

\* p is inside a network request: between hc.Do's call and its return
InRequest(p) == At(p, "do", "wait")

\* C23: no goroutine is inside a network request while it holds c.mu, and
\* every step that changes the token cache, loggedInUser or the stored
\* credentials is a step of the goroutine holding c.mu, which releases it
\* in that step.
C23_NoRequestUnderMutex ==
    /\ [](\A p \in Procs: InRequest(p) => mu # p)
    /\ [][<<tokens, loggedInUser, loginUser, loginPass>>' #
             <<tokens, loggedInUser, loginUser, loginPass>>
          => mu \in Procs /\ stack'[mu] # stack[mu] /\ mu' = 0]_vars

\* one goroutine holds c.mu for a look at the cache while the request of
\* the other is on the wire
C23_Witness ==
    /\ InRequest(P1)
    /\ mu = P2
    /\ At(P2, "GetToken", "check1")

(* ------------------------------- Login (Spec) ------------------------- *)

\* the answer to a login request carries a result that is not a success:
\* a stale login token, or anything else (also no result at all)
StaleResult(ev) ==
    RecvOf(ev, IsLoginReq) /\ ev.resp.result \in {"NeedToken", "WrongToken", "needtoken"}

OtherResult(ev) ==
    RecvOf(ev, IsLoginReq) /\ ev.resp.result \notin
        {"Success", "NeedToken", "WrongToken", "needtoken"}

NLogins(p) == Count(p, LAMBDA ev: SendOf(ev, IsLoginReq))
NLoginAnswers(p) == Count(p, LAMBDA ev: RecvOf(ev, IsLoginReq))

\* the server of the login scenarios: every login-token fetch is answered
\* with a token, every login request with an envelope without error
LoginScenario(p) ==
    All(p, LAMBDA ev: ev.e = "recv" =>
                         \/ RecvOf(ev, IsAnyTokenFetch) /\ GoodFetch(ev)
                         \/ RecvOf(ev, IsLoginReq) /\ Accepted(ev))

\* C24: a Login call whose login requests were all answered with a
\* stale-token result has sent exactly tokenRetry login requests and
\* returns the retry-exhausted error wrapping the token error; a login
\* request answered with any other result that is not a success is the
\* last request of the call, which returns the login-failed error, so that
\* a call whose first answer is such has sent exactly one login request.
C24_StaleLoginToken ==
    (DoneCall(P1, {"Login"}) /\ LoginScenario(P1)) =>
        /\ All(P1, LAMBDA ev: RecvOf(ev, IsLoginReq) => StaleResult(ev)) =>
              /\ NLogins(P1) = cfg.tokenRetry
              /\ result[P1].err = Wrap("login retry exhausted", Plain("login token error"))
        /\ \A i \in 1 .. Len(log[P1]):
              OtherResult(log[P1][i]) =>
                 /\ i = Len(log[P1])
                 /\ result[P1].err = Plain("login failed")
                 /\ Count(P1, LAMBDA ev: StaleResult(ev)) = 0 => NLogins(P1) = 1

\* the default budget used up by three stale results
C24_Witness ==
    /\ DoneCall(P1, {"Login"})
    /\ LoginScenario(P1)
    /\ cfg.tokenRetry = DefaultTokenRetry
    /\ NLogins(P1) = DefaultTokenRetry
    /\ All(P1, LAMBDA ev: RecvOf(ev, IsLoginReq) => StaleResult(ev))
    /\ result[P1].err.k = "wrap"

\* a stale result, then a refusal that ends the call
C24_Refused ==
    /\ DoneCall(P1, {"Login"})
    /\ LoginScenario(P1)
    /\ NLogins(P1) = 2
    /\ OtherResult(LastEvent(P1))
    /\ LastEvent(P1).resp.result = "Failed"

(* --------------------- tokens and concurrent callers ------------------ *)

\* the number of requests among the first i events of the call of q
SentBy(q, i) == Len(SelectSeq(SubSeq(log[q], 1, i), LAMBDA ev: ev.e = "send"))

\* the token v came in the answer to a fetch that goroutine q had sent
\* before the call of p began
FetchedBy(q, p, v) ==
    /\ calls[q] = pre[p].call[q]
    /\ \E i \in 1 .. Len(log[q]):
          /\ RecvOf(log[q][i], IsAnyTokenFetch)
          /\ \E t \in DOMAIN log[q][i].resp.tokens: log[q][i].resp.tokens[t] = v
          /\ SentBy(q, i) <= pre[p].sent[q]

FetchedBefore(p, v) == \E q \in Procs \ {p}: FetchedBy(q, p, v)

CachedBefore(p, v) == \E t \in DOMAIN pre[p].tokens: pre[p].tokens[t] = v

\* the login tokens the login requests of the Login call of p carried
LoginTokensSent(p) ==
    {log[p][i].np["lgtoken"] : i \in {j \in 1 .. Len(log[p]): SendOf(log[p][j], IsLoginReq)}}

\* C25: the login token of every login request of a Login call is neither
\* a value the cache held when the call began nor the answer to a fetch
\* that was sent before the call began.
C25_FreshLoginToken ==
    \A p \in Procs:
        op[p].name = "Login" =>
            \A v \in LoginTokensSent(p): ~CachedBefore(p, v) /\ ~FetchedBefore(p, v)

\* the tokens the writes of the PostWithToken call of p carried
WriteTokensSent(p) ==
    {log[p][i].np["token"] : i \in {j \in 1 .. Len(log[p]): SendOf(log[p][j], IsWrite)}}

\* C26: a PostWithToken call with NoCache invalidates before its first
\* attempt, and hence before every attempt, so no write of it carries a
\* value the cache held when the call began or the answer to a fetch that
\* was sent before the call began; a call without NoCache that began with
\* a token cached for the kind carries that token in its first write.
C26_FreshTokenAfterInvalidate ==
    \A p \in Procs:
        op[p].name = "PostWithToken" =>
            /\ op[p].opt.NoCache =>
                  \A v \in WriteTokensSent(p): ~CachedBefore(p, v) /\ ~FetchedBefore(p, v)
            /\ (~op[p].opt.NoCache /\ Get(pre[p].tokens, op[p].tokenType) # "") =>
                  \A i \in 1 .. Len(log[p]):
                      (SendOf(log[p][i], IsWrite) /\ SentBy(p, i) = 1) =>
                          log[p][i].np["token"] = pre[p].tokens[op[p].tokenType]

\* C29: after a Login or Logout that succeeded has returned, the cache
\* holds no token that is the answer to a fetch sent before that call
\* began (and so before the identity change completed).
C29_NoStaleTokenAfterIdentityChange ==
    \A p \in Procs:
        (DoneCall(p, {"Login", "Logout"}) /\ result[p].err = NoErr) =>
            \A t \in DOMAIN tokens: ~FetchedBefore(p, tokens[t])

(* ----------------------- recursion and termination -------------------- *)

\* the Relogin calls on the call stack of p
ReloginDepth(p) == Cardinality({i \in 1 .. Len(stack[p]): stack[p][i].fn = "Relogin"})

NSends(p) == Count(p, LAMBDA ev: ev.e = "send")

\* the requests of a Get or Post call when no request of a Relogin starts
\* another Relogin: reloginRetry + 1 sends of the request itself, and per
\* relogin at most tokenRetry login-token fetches and login requests
RequestBound == (cfg.reloginRetry + 1) + cfg.reloginRetry * 2 * cfg.tokenRetry

\* C27: no Relogin is started by a request sent inside a Relogin (the call
\* stack of a goroutine never holds two Relogin calls), and a Get or Post
\* call sends at most RequestBound requests.
C27_BoundedRecovery ==
    \A p \in Procs:
        /\ ReloginDepth(p) <= 1
        /\ op[p].name \in {"Get", "Post"} => NSends(p) <= RequestBound

\* C28: a GetToken call never waits for the singleflight call of its kind
\* that its own goroutine is running further up its call stack.
C28_NoSelfWait ==
    \A p \in Procs:
        ~(At(p, "GetToken", "wait") /\ sf[Top(p).tokenType] = p)

(* --------------------- Login in both error modes (SpecPair) ----------- *)

\* C30: for the same server answers, a Login call sends the same token
\* fetches and login requests in the same order and succeeds or fails
\* alike, with throwOnApiError on and off.
C30_LoginSameInBothModes ==
    BothRunsDone({"Login"}) =>
       /\ Requests(log[P1]) = Requests(env.first.log)
       /\ (result[P1].err = NoErr) = (env.first.result.err = NoErr)

\* the login requests of the run l answered with an envelope that carries
\* a token-error code
TokenErrorAnswers(l) ==
    SelectSeq(l, LAMBDA ev: RecvOf(ev, IsLoginReq) /\ TokenRejected(ev))

\* what holds in the code: the two runs agree when no login request was
\* answered with a token-error envelope
C30_SameWithoutTokenErrorEnvelope ==
    (BothRunsDone({"Login"}) /\ TokenErrorAnswers(env.first.log) = <<>>) =>
       /\ Requests(log[P1]) = Requests(env.first.log)
       /\ (result[P1].err = NoErr) = (env.first.result.err = NoErr)

(* ------------------- cancellation of coalesced fetches ---------------- *)

\* C31: a GetToken call returns a cancellation failure only if the ctx its
\* own caller passed is done; cancelling the ctx of one caller does not make
\* another caller coalesced on the same fetch fail.
C31_CancellationPerCaller ==
    \A p \in Procs:
        (DoneCall(p, {"GetToken"}) /\ result[p].err = Canceled) => ctxDone[p]

\* what holds in the code: a cancellation failure is returned only when
\* the ctx of the caller whose goroutine ran the fetch was done, so a
\* caller that sent the fetch itself fails only on its own ctx
C31_CancelledByFetcher ==
    \A p \in Procs:
        (DoneCall(p, {"GetToken"}) /\ result[p].err = Canceled /\ ~ctxDone[p]) =>
            /\ NSends(p) = 0
            /\ \E q \in Procs \ {p}: ctxDone[q] /\ op[q].name = "GetToken"

(* ------------------------ login state invariant ----------------------- *)

\* Relogin has credentials to use (part_002 line 84)
CredentialsStored == ~NoCredentials(loginUser, loginPass)

\* lines 52-56: the storing step of a Login answered with success sets the
\* stored name and password to its arguments and loggedInUser to the name
\* in the answer
SetTogether(p) ==
    /\ StoredByLogin(p)
    /\ loggedInUser' = Top(p).ret.resp.lgname

\* lines 99-103: the clearing step of a Logout whose write succeeded
ClearedTogether(p) ==
    /\ ClearedByLogout(p)
    /\ Top(p).ret.err = NoErr
    /\ loggedInUser' = ""

\* C32: in every state of every interleaving of two goroutines,
\* loggedInUser is non-empty only if a user name and a password are stored
\* (so a request that gets the assertion injected is sent in a state where
\* Relogin has credentials), and every step that changes loggedInUser, the
\* stored name or the stored password is the storing step of one successful
\* Login, which sets the three, or the clearing step of a Logout, which
\* empties the three.
C32_IdentityHasCredentials ==
    /\ [](loggedInUser # "" => CredentialsStored)
    /\ [][<<loggedInUser, loginUser, loginPass>>' # <<loggedInUser, loginUser, loginPass>>
            => \E p \in Procs: SetTogether(p) \/ ClearedTogether(p)]_vars

\* a request that carried the injected assertion was answered with an
\* assertion failure while another goroutine was inside a call, and the
\* Relogin started for it reads stored credentials
C32_Witness ==
    \E p \in Procs:
        /\ At(p, "Relogin", "read")
        /\ Len(stack[p]) > 1
        /\ loggedInUser # ""
        /\ CredentialsStored
        /\ \E q \in Procs \ {p}: Running(q)

====
